---------------------------- MODULE Spec2Model ----------------------------
(***************************************************************************)
(* Tenant isolation and shard routing of Multi-Tenant Grade Insight:       *)
(* TenantMiddleware (app/middleware/tenant.py) and DatabaseManager         *)
(* (app/database/connection.py).                                           *)
(*                                                                         *)
(* A Python str is modelled as a sequence of one-character strings, so     *)
(* that split, strip, lower and the regular expressions are computed and   *)
(* not assumed.  Python None is the value None below, which is no such     *)
(* sequence.                                                               *)
(***************************************************************************)
EXTENDS Integers, Sequences, FiniteSets, TLC

(***************************************************************************)
(* Bounds of the model.                                                    *)
(***************************************************************************)
MaxHostLen == 5

MaxValueLen == 4

MaxStudents == 2

MaxCount == 5

MaxCloses == 2

\* Python hashes are bounded to -MaxHash..MaxHash.
MaxHash == 8

\* Tenants registered in the check of the shard balance.
MaxTenants == 4

(***************************************************************************)
(* Characters and strings.                                                 *)
(***************************************************************************)
None == <<"None">>

LowerLetters ==
    {"a", "b", "c", "d", "e", "f", "g", "h", "i", "j", "k", "l", "m",
     "n", "o", "p", "q", "r", "s", "t", "u", "v", "w", "x", "y", "z"}

UpperLetters ==
    {"A", "B", "C", "D", "E", "F", "G", "H", "I", "J", "K", "L", "M",
     "N", "O", "P", "Q", "R", "S", "T", "U", "V", "W", "X", "Y", "Z"}

Digits == {"0", "1", "2", "3", "4", "5", "6", "7", "8", "9"}

Whitespace == {" ", "\t"}

LowerChar(c) ==
    CASE c = "A" -> "a" [] c = "B" -> "b" [] c = "C" -> "c" [] c = "D" -> "d"
      [] c = "E" -> "e" [] c = "F" -> "f" [] c = "G" -> "g" [] c = "H" -> "h"
      [] c = "I" -> "i" [] c = "J" -> "j" [] c = "K" -> "k" [] c = "L" -> "l"
      [] c = "M" -> "m" [] c = "N" -> "n" [] c = "O" -> "o" [] c = "P" -> "p"
      [] c = "Q" -> "q" [] c = "R" -> "r" [] c = "S" -> "s" [] c = "T" -> "t"
      [] c = "U" -> "u" [] c = "V" -> "v" [] c = "W" -> "w" [] c = "X" -> "x"
      [] c = "Y" -> "y" [] c = "Z" -> "z" [] OTHER -> c

\* str.lower()
PyLower(s) == [i \in 1..Len(s) |-> LowerChar(s[i])]

\* str.split(sep): the list of pieces between the occurrences of sep;
\* "".split(sep) is [""] and a trailing sep yields a trailing "".
RECURSIVE PySplitFrom(_, _, _, _)
PySplitFrom(s, sep, i, cur) ==
    IF i > Len(s) THEN <<cur>>
    ELSE IF s[i] = sep THEN <<cur>> \o PySplitFrom(s, sep, i + 1, <<>>)
    ELSE PySplitFrom(s, sep, i + 1, Append(cur, s[i]))

PySplit(s, sep) == PySplitFrom(s, sep, 1, <<>>)

\* str.strip(): leading and trailing whitespace removed
RECURSIVE PyLStrip(_)
PyLStrip(s) ==
    IF s # <<>> /\ Head(s) \in Whitespace THEN PyLStrip(Tail(s)) ELSE s

RECURSIVE PyRStrip(_)
PyRStrip(s) ==
    IF s # <<>> /\ s[Len(s)] \in Whitespace
    THEN PyRStrip(SubSeq(s, 1, Len(s) - 1)) ELSE s

PyStrip(s) == PyRStrip(PyLStrip(s))

\* re.match(r"^[C]+$", s) for a character class C.  The inputs are HTTP
\* header and query values, which hold no line feed, so $ is the end of s.
MatchClassPlus(s, class) ==
    /\ Len(s) >= 1
    /\ \A i \in 1..Len(s) : s[i] \in class

\* re.match(r"^\d+\.\d+\.\d+\.\d+$", host): \d+ holds no ".", so the match
\* is four non-empty runs of digits separated by three dots.
MatchIPv4(host) ==
    LET groups == PySplit(host, ".")
    IN  /\ Len(groups) = 4
        /\ \A i \in 1..4 : MatchClassPlus(groups[i], Digits)

S_localhost == <<"l", "o", "c", "a", "l", "h", "o", "s", "t">>

S_127_0_0_1 == <<"1", "2", "7", ".", "0", ".", "0", ".", "1">>

SubdomainClass == LowerLetters \cup Digits \cup {"-"}

TenantIdClass == LowerLetters \cup UpperLetters \cup Digits \cup {"-", "_"}

(***************************************************************************)
(* TenantMiddleware: the three detection methods and their precedence.     *)
(* A request is a record [host, header, query, path]; an absent header or  *)
(* parameter is "" (the default of .get(name, "")).                        *)
(***************************************************************************)
detect_from_subdomain_len2(host0) ==
    LET host1 == PyLower(host0)
        host  == PySplit(host1, ":")[1]
        parts == PySplit(host, ".")
    IN  IF host \in {S_localhost, S_127_0_0_1} \/ MatchIPv4(host) THEN None
        ELSE IF Len(parts) >= 2
                /\ MatchClassPlus(parts[1], SubdomainClass)
                /\ Len(parts[1]) >= 2
             THEN parts[1]
        ELSE None

_detect_from_subdomain(host0) ==
    LET host1 == PyLower(host0)
        host  == PySplit(host1, ":")[1]
        parts == PySplit(host, ".")
    IN  IF host \in {S_localhost, S_127_0_0_1} \/ MatchIPv4(host) THEN None
        ELSE IF Len(parts) >= 3
                /\ MatchClassPlus(parts[1], SubdomainClass)
                /\ Len(parts[1]) >= 2
             THEN parts[1]
        ELSE None

detect_from_header_nolower(value) ==
    LET tenant_id == PyStrip(value)
    IN  IF tenant_id # <<>> /\ MatchClassPlus(tenant_id, TenantIdClass)
        THEN tenant_id
        ELSE None

_detect_from_header(value) ==
    LET tenant_id == PyStrip(value)
    IN  IF tenant_id # <<>> /\ MatchClassPlus(tenant_id, TenantIdClass)
        THEN PyLower(tenant_id)
        ELSE None

_detect_from_query(value) ==
    LET tenant_id == PyStrip(value)
    IN  IF tenant_id # <<>> /\ MatchClassPlus(tenant_id, TenantIdClass)
        THEN PyLower(tenant_id)
        ELSE None

NoTenantInfo == [method |-> "none", identifier |-> None, type |-> "none"]

detect_tenant_header_first(request) ==
    LET subdomain_tenant == _detect_from_subdomain(request.host)
        header_tenant    == _detect_from_header(request.header)
        query_tenant     == _detect_from_query(request.query)
    IN  IF header_tenant # None
        THEN [method |-> "header", identifier |-> header_tenant,
              type |-> "tenant_id"]
        ELSE IF subdomain_tenant # None
        THEN [method |-> "subdomain", identifier |-> subdomain_tenant,
              type |-> "subdomain"]
        ELSE IF query_tenant # None
        THEN [method |-> "query", identifier |-> query_tenant,
              type |-> "tenant_id"]
        ELSE NoTenantInfo

\* Returns the detection record, or NoTenantInfo for Python's None.
_detect_tenant(request) ==
    LET subdomain_tenant == _detect_from_subdomain(request.host)
        header_tenant    == _detect_from_header(request.header)
        query_tenant     == _detect_from_query(request.query)
    IN  IF subdomain_tenant # None
        THEN [method |-> "subdomain", identifier |-> subdomain_tenant,
              type |-> "subdomain"]
        ELSE IF header_tenant # None
        THEN [method |-> "header", identifier |-> header_tenant,
              type |-> "tenant_id"]
        ELSE IF query_tenant # None
        THEN [method |-> "query", identifier |-> query_tenant,
              type |-> "tenant_id"]
        ELSE NoTenantInfo


(***************************************************************************)
(* Paths, _is_tenant_exempt_path and the error responses.                  *)
(***************************************************************************)
P_root == <<"/">>

P_health == <<"/", "h", "e", "a", "l", "t", "h">>

P_docs == <<"/", "d", "o", "c", "s">>

P_openapi == <<"/", "o", "p", "e", "n", "a", "p", "i", ".", "j", "s", "o", "n">>

P_redoc == <<"/", "r", "e", "d", "o", "c">>

P_favicon == <<"/", "f", "a", "v", "i", "c", "o", "n", ".", "i", "c", "o">>

P_admin == <<"/", "a", "d", "m", "i", "n">>

P_setup == <<"/", "s", "e", "t", "u", "p">>

P_admin_ == <<"/", "a", "d", "m", "i", "n", "/">>

P_setup_ == <<"/", "s", "e", "t", "u", "p", "/">>

P_static_ == <<"/", "s", "t", "a", "t", "i", "c", "/">>

P_stats ==
    <<"/", "a", "p", "i", "/", "d", "a", "s", "h", "b", "o", "a", "r", "d",
      "/", "s", "t", "a", "t", "s">>

\* str.startswith(prefix)
PyStartsWith(s, prefix) ==
    /\ Len(s) >= Len(prefix)
    /\ SubSeq(s, 1, Len(prefix)) = prefix

exempt_paths ==
    {P_root, P_health, P_docs, P_openapi, P_redoc, P_favicon, P_admin, P_setup}

exempt_prefixes == {P_admin_, P_setup_, P_static_}

_is_tenant_exempt_path(path) ==
    \/ path \in exempt_paths
    \/ \E prefix \in exempt_prefixes : PyStartsWith(path, prefix)

\* A response: the status, the "error" and "message" of the JSON content
\* with the values the message interpolates, and the two tenant headers.
NoResponse ==
    [status |-> 0, error |-> "", message |-> "", identifier |-> None,
     detected_method |-> "", path |-> <<>>,
     x_tenant_id |-> None, x_shard_number |-> None]

_process_without_tenant(path) ==
    [NoResponse EXCEPT !.status = 200,
        !.message = "System endpoint accessed without tenant context",
        !.path = path]

handle_no_tenant_root_prefix(path) ==
    IF PyStartsWith(path, P_root)
    THEN _process_without_tenant(path)
    ELSE [NoResponse EXCEPT !.status = 400, !.error = "Tenant required",
             !.message = "This request requires tenant identification."]

_handle_no_tenant(path) ==
    IF _is_tenant_exempt_path(path)
    THEN _process_without_tenant(path)
    ELSE [NoResponse EXCEPT !.status = 400, !.error = "Tenant required",
             !.message = "This request requires tenant identification."]

_handle_invalid_tenant(tenant_info) ==
    [NoResponse EXCEPT !.status = 404, !.error = "Tenant not found",
        !.message = "The tenant was not found or is not active.",
        !.identifier = tenant_info.identifier,
        !.detected_method = tenant_info.method]

DigitChars == <<"0", "1", "2", "3", "4", "5", "6", "7", "8", "9">>

\* str(n) of a non-negative int: its decimal digits
RECURSIVE PyStrInt(_)
PyStrInt(n) ==
    IF n < 10 THEN <<DigitChars[n + 1]>>
    ELSE PyStrInt(n \div 10) \o <<DigitChars[(n % 10) + 1]>>

add_tenant_headers_first_shard(response, tenant_id, tenant_shard) ==
    [response EXCEPT !.x_tenant_id = tenant_id, !.x_shard_number = PyStrInt(1)]

\* response.headers["X-Tenant-ID"] = request.state.tenant_id
\* response.headers["X-Shard-Number"] = str(request.state.tenant_shard)
add_tenant_headers(response, tenant_id, tenant_shard) ==
    [response EXCEPT !.x_tenant_id = tenant_id,
                     !.x_shard_number = PyStrInt(tenant_shard)]

\* The response of a downstream handler that returned.
HandlerResponse == [NoResponse EXCEPT !.status = 200, !.message = "handler"]

InternalServerError ==
    [NoResponse EXCEPT !.status = 500, !.error = "Internal server error",
        !.message = "Failed to process tenant information"]

(***************************************************************************)
(* Settings and the tenant registry.                                       *)
(***************************************************************************)
\* Settings.database_shard_urls: shard 1 always, shards 2 and 3 optional.
ShardConfigs == {{1}, {1, 2}, {1, 3}, {1, 2, 3}}

AllShards == {1, 2, 3}

available_shards_all(urls) == <<1, 2, 3>>

\* list(settings.database_shard_urls.keys()): insertion order 1, 2, 3
available_shards(urls) == SelectSeq(<<1, 2, 3>>, LAMBDA s : s \in urls)

T_ta == <<"t", "a">>

T_tb == <<"t", "b">>

S_sa == <<"s", "a">>

S_sb == <<"s", "b">>

\* The arguments create_tenant is called with.
TenantIds == {T_ta, T_tb}

Subdomains == {S_sa, S_sb}

\* Python None where a TenantRegistry record is expected.
NoRecord ==
    [tenant_id |-> None, subdomain |-> None, shard_number |-> 0,
     is_active |-> FALSE]

\* result.scalar_one_or_none() of a select over the registry rows; the
\* selects below filter on a unique column, so at most one row matches
scalar_one_or_none(rows) ==
    IF rows = {} THEN NoRecord ELSE CHOOSE row \in rows : TRUE

\* select(TenantRegistry).where(tenant_id == identifier, is_active == True)
select_active_by_tenant_id(reg, identifier) ==
    scalar_one_or_none(
        {row \in reg : row.tenant_id = identifier /\ row.is_active})

get_tenant_by_subdomain_any_status(reg, subdomain) ==
    scalar_one_or_none({row \in reg : row.subdomain = subdomain})

\* select(TenantRegistry).where(subdomain == subdomain, is_active == True)
get_tenant_by_subdomain(reg, subdomain) ==
    scalar_one_or_none(
        {row \in reg : row.subdomain = subdomain /\ row.is_active})

\* select(TenantRegistry).where(tenant_id == tenant_id)
select_by_tenant_id(reg, tenant_id) ==
    scalar_one_or_none({row \in reg : row.tenant_id = tenant_id})

get_tenant_shard_default(reg, tenant_id) ==
    LET tenant_record == select_by_tenant_id(reg, tenant_id)
    IN  IF tenant_record = NoRecord
        THEN [error |-> "", shard_number |-> 1]
        ELSE IF ~tenant_record.is_active
        THEN [error |-> "TenantInactive", shard_number |-> 0]
        ELSE [error |-> "", shard_number |-> tenant_record.shard_number]

get_tenant_shard_unchecked(reg, tenant_id) ==
    LET tenant_record == select_by_tenant_id(reg, tenant_id)
    IN  IF tenant_record = NoRecord
        THEN [error |-> "TenantNotFound", shard_number |-> 0]
        ELSE [error |-> "", shard_number |-> tenant_record.shard_number]

\* Outcome of get_tenant_shard: the error raised, or the shard number.
get_tenant_shard(reg, tenant_id) ==
    LET tenant_record == select_by_tenant_id(reg, tenant_id)
    IN  IF tenant_record = NoRecord
        THEN [error |-> "TenantNotFound", shard_number |-> 0]
        ELSE IF ~tenant_record.is_active
        THEN [error |-> "TenantInactive", shard_number |-> 0]
        ELSE [error |-> "", shard_number |-> tenant_record.shard_number]

shard_count_active(reg, s) ==
    Cardinality({row \in reg : row.shard_number = s /\ row.is_active})

\* shard_counts.get(s, 0) after the GROUP BY shard_number count
shard_count(reg, s) == Cardinality({row \in reg : row.shard_number = s})

count_by_shard_startup(reg) == [s \in {} |-> 0]

\* The result of the GROUP BY shard_number count as the dict shard_counts:
\* a key for every shard that some row is on.
count_by_shard(reg) ==
    [s \in {row.shard_number : row \in reg} |-> shard_count(reg, s)]

\* shard_counts.get(s, 0)
counts_get(shard_counts, s) ==
    IF s \in DOMAIN shard_counts THEN shard_counts[s] ELSE 0

least_loaded_shard_last_min(shard_counts, urls) ==
    LET avail == available_shards(urls)
    IN  IF DOMAIN shard_counts = {} THEN avail[1]
        ELSE LET i == CHOOSE i \in 1..Len(avail) :
                        /\ \A j \in 1..Len(avail) :
                              counts_get(shard_counts, avail[i])
                                  <= counts_get(shard_counts, avail[j])
                        /\ \A j \in (i + 1)..Len(avail) :
                              counts_get(shard_counts, avail[j])
                                  > counts_get(shard_counts, avail[i])
             IN  avail[i]

\* _get_least_loaded_shard after the count query: the first shard when the
\* dict is empty, else min(available_shards, key=...), the first element
\* with the least key
least_loaded_shard(shard_counts, urls) ==
    LET avail == available_shards(urls)
    IN  IF DOMAIN shard_counts = {} THEN avail[1]
        ELSE LET i == CHOOSE i \in 1..Len(avail) :
                        /\ \A j \in 1..Len(avail) :
                              counts_get(shard_counts, avail[i])
                                  <= counts_get(shard_counts, avail[j])
                        /\ \A j \in 1..(i - 1) :
                              counts_get(shard_counts, avail[j])
                                  > counts_get(shard_counts, avail[i])
             IN  avail[i]

_get_least_loaded_shard(reg, urls) ==
    least_loaded_shard(count_by_shard(reg), urls)

\* The uniqueness constraints of the registry table on tenant_id and on
\* subdomain: the insert of a colliding row fails.
UniqueViolation(reg, tenant_id, subdomain) ==
    \E row \in reg : row.tenant_id = tenant_id \/ row.subdomain = subdomain

new_tenant_record_inactive(tenant_id, subdomain, shard_number) ==
    [tenant_id |-> tenant_id, subdomain |-> subdomain,
     shard_number |-> shard_number, is_active |-> FALSE]

\* TenantRegistry(tenant_id=..., subdomain=..., shard_number=...,
\* is_active=True)
new_tenant_record(tenant_id, subdomain, shard_number) ==
    [tenant_id |-> tenant_id, subdomain |-> subdomain,
     shard_number |-> shard_number, is_active |-> TRUE]

commit_record_merge(reg, record) ==
    IF \E row \in reg :
          row.tenant_id # record.tenant_id /\ row.subdomain = record.subdomain
    THEN [error |-> "IntegrityError", registry |-> reg]
    ELSE [error |-> "",
          registry |->
              {row \in reg : row.tenant_id # record.tenant_id} \cup {record}]

commit_record_unchecked(reg, record) ==
    [error |-> "", registry |-> reg \cup {record}]

\* session.add(tenant_record); await session.commit(): the row is inserted,
\* or the commit raises on a uniqueness constraint and nothing is inserted
commit_record(reg, record) ==
    IF UniqueViolation(reg, record.tenant_id, record.subdomain)
    THEN [error |-> "IntegrityError", registry |-> reg]
    ELSE [error |-> "", registry |-> reg \cup {record}]

(***************************************************************************)
(* State.                                                                  *)
(***************************************************************************)
VARIABLES
    debug,                  \* settings.debug
    database_shard_urls,    \* settings: the set of configured shard numbers
    disposals,              \* dispose() calls the manager's engines received
    creator,                \* callers of create_tenant
    initer,                 \* callers of initialize, at startup and lazily
    engines_made,           \* create_async_engine calls, per engine
    shard_status,           \* each shard database: up, slow or down
    open_sessions,          \* sessions made and not yet closed
    STUDENTS,               \* routes/students.py STUDENTS
    GRADES,                 \* routes/grades.py GRADES
    route,                  \* the last call of a students or grades route
    initialized,            \* DatabaseManager._initialized
    shard_session_makers,   \* shards that DatabaseManager holds a maker for
    registry,               \* rows of the tenant registry table
    tenant_cache,           \* TenantMiddleware.tenant_cache
    req,                    \* requests inside TenantMiddleware.dispatch
    call,                   \* callers of get_tenant_session
    shard_data,             \* student rows stored on each shard
    det                     \* a detection function applied to one input

init_vars == <<initer, engines_made, shard_status>>

route_vars == <<STUDENTS, GRADES, route>>

vars ==
    <<init_vars, route_vars, open_sessions, debug, disposals, creator,
      database_shard_urls, initialized, shard_session_makers, registry,
      tenant_cache, req, call, shard_data, det>>

Reqs == {"r1", "r2"}

Callers == {"c1", "c2"}

Creators == {"k1", "k2"}

\* f"{lookup_type}:{identifier}"; lookup_type holds no ":", so the pair
\* determines the key.
cache_key(tenant_info) == <<tenant_info.type, tenant_info.identifier>>

IdleReq ==
    [pc |-> "idle", info |-> NoTenantInfo, path |-> <<>>,
     fetched |-> NoRecord,
     state_tenant_id |-> None, state_tenant_shard |-> 0,
     handler_ran |-> FALSE, response |-> NoResponse,
     arrival_inactive |-> FALSE, arrival_active_shard |-> 0,
     raised_in |-> "", handler_error |-> ""]

NoSession == [maker |-> 0, info_tenant_id |-> None, info_shard_number |-> 0]

IdleCall ==
    [pc |-> "idle", form |-> "", tenant_id |-> None, shard_number |-> 0,
     error |-> "", session |-> NoSession, read |-> "none", result |-> {}]

\* A call of create_tenant: its arguments, the counts and the shard that
\* _get_least_loaded_shard read and chose, the error raised or the record
\* returned.
IdleCreator ==
    [pc |-> "idle", tenant_id |-> None, subdomain |-> None,
     shard_counts |-> <<>>, shard_number |-> 0, error |-> "",
     returned |-> NoRecord]

Initers == {"i1", "i2"}

\* The engines: 0 is the tenant registry engine, 1 to 3 the shard engines.
EngineKeys == {0} \cup AllShards

\* A call of initialize, by the lifespan startup or by the lazy
\* initialization of a registry lookup: where it is, and the position in
\* settings.database_shard_urls of the shard whose tables it creates.
IdleIniter == [pc |-> "idle", via |-> "", next |-> 0]

\* A call of a students or grades route: the handler, the tenant_id of
\* request.state, the id asked for, the status and the records returned.
IdleRoute ==
    [op |-> "", tenant_id |-> None, id |-> 0, status |-> 0, result |-> <<>>]

IdleDet == [kind |-> "none", input |-> <<>>, done |-> FALSE, out |-> None]

\* get_tenant_registry_session and get_tenant_session initialize the
\* manager when it is not initialized; _initialize_shards stores one
\* session maker per configured shard.
MakersAfterInitialize ==
    IF initialized THEN shard_session_makers ELSE database_shard_urls

InitCommon ==
    /\ debug \in BOOLEAN
    /\ database_shard_urls \in ShardConfigs
    /\ disposals = 0
    /\ creator = [k \in Creators |-> IdleCreator]
    /\ initer = [i \in Initers |-> IdleIniter]
    /\ engines_made = [e \in EngineKeys |-> 0]
    /\ shard_status = [s \in AllShards |-> "up"]
    /\ open_sessions = {}
    /\ STUDENTS = <<>>
    /\ GRADES = <<>>
    /\ route = IdleRoute
    /\ initialized = FALSE
    /\ shard_session_makers = {}
    /\ registry = {}
    /\ tenant_cache = [key \in {} |-> NoRecord]
    /\ req = [r \in Reqs |-> IdleReq]
    /\ call = [c \in Callers |-> IdleCall]
    /\ shard_data = [s \in AllShards |-> {}]

\* The process in its production configuration, the default of
\* Settings.debug.
Init ==
    /\ InitCommon
    /\ ~debug
    /\ det = IdleDet

\* lifespan startup: initialize_database()
Startup ==
    /\ ~initialized
    /\ initialized' = TRUE
    /\ shard_session_makers' = database_shard_urls
    /\ UNCHANGED <<init_vars, route_vars, open_sessions, debug, disposals, creator,
                   database_shard_urls, registry, tenant_cache, req, call, shard_data, det>>

(***************************************************************************)
(* DatabaseManager.create_tenant, and the deactivation of a tenant.        *)
(***************************************************************************)
\* create_tenant: the shard is chosen from the counts read in this call,
\* the record is added and committed; a colliding insert raises and adds
\* nothing
CreateTenant(tenant_id, subdomain) ==
    /\ registry' =
          commit_record(registry,
              new_tenant_record(tenant_id, subdomain,
                  _get_least_loaded_shard(registry, database_shard_urls))
          ).registry
    /\ initialized' = TRUE
    /\ shard_session_makers' = MakersAfterInitialize
    /\ UNCHANGED <<init_vars, route_vars, open_sessions, debug, disposals, creator,
                   database_shard_urls, tenant_cache, req, call, shard_data,
                   det>>

\* deactivate(identifier): the active flag of the tenant's row is cleared;
\* the row, its shard and every other row stay
Deactivate(tenant_id) ==
    /\ \E row \in registry : row.tenant_id = tenant_id /\ row.is_active
    /\ registry' =
          {IF row.tenant_id = tenant_id
           THEN [row EXCEPT !.is_active = FALSE] ELSE row : row \in registry}
    /\ UNCHANGED <<init_vars, route_vars, open_sessions, debug, disposals, creator,
                   database_shard_urls, initialized, shard_session_makers,
                   tenant_cache, req, call, shard_data, det>>

(***************************************************************************)
(* TenantMiddleware.dispatch.  A request is handled in the steps between   *)
(* which the coroutine can be suspended: detection and the cache check,    *)
(* the registry query, the cache store, and the downstream handler.        *)
(***************************************************************************)
H_localhost_8000 ==
    <<"l", "o", "c", "a", "l", "h", "o", "s", "t", ":", "8", "0", "0", "0">>

H_sa == <<"S", "a", ".", "g", "i", ".", "c", "o", "m", ":", "8", "0">>

V_tb == <<" ", "T", "b", " ">>

\* The requests that arrive: a host without and with a subdomain, the
\* header absent, exact, and padded in mixed case, the parameter absent or
\* present, an exempt and a tenant path.
RequestSamples ==
    [host : {H_localhost_8000, H_sa},
     header : {<<>>, T_ta, V_tb},
     query : {<<>>, T_tb},
     path : {P_health, P_stats}]

\* each arriving request with its _detect_tenant
Arrivals == {<<request, _detect_tenant(request)>> : request \in RequestSamples}

\* The registry rows a detection record designates, whatever their status.
DesignatedRows(reg, tenant_info) ==
    {row \in reg :
        IF tenant_info.type = "subdomain"
        THEN row.subdomain = tenant_info.identifier
        ELSE row.tenant_id = tenant_info.identifier}

\* dispatch steps 3 to 5 once _validate_tenant has returned `validated`
AfterValidation_identifier(r, tenant_info, validated, base) ==
    IF validated = NoRecord
    THEN [base EXCEPT !.pc = "done",
             !.response = _handle_invalid_tenant(tenant_info)]
    ELSE [base EXCEPT !.pc = "handler",
             !.state_tenant_id = tenant_info.identifier,
             !.state_tenant_shard = validated.shard_number]

\* dispatch after _validate_tenant: 404 for no record, else the record's
\* tenant_id and shard_number go to request.state and call_next follows
AfterValidation(r, tenant_info, validated, base) ==
    IF validated = NoRecord
    THEN [base EXCEPT !.pc = "done",
             !.response = _handle_invalid_tenant(tenant_info)]
    ELSE [base EXCEPT !.pc = "handler",
             !.state_tenant_id = validated.tenant_id,
             !.state_tenant_shard = validated.shard_number]

DispatchBegin(r, arrival) ==
    /\ req[r].pc = "idle"
    /\ LET request == arrival[1]
           tenant_info == arrival[2]
           base == [IdleReq EXCEPT !.info = tenant_info, !.path = request.path,
                       !.arrival_inactive =
                           \E row \in DesignatedRows(registry, tenant_info) :
                               ~row.is_active,
                       !.arrival_active_shard =
                           IF /\ tenant_info.method = "header"
                              /\ \E row \in registry :
                                    row.tenant_id = request.header /\ row.is_active
                           THEN (CHOOSE row \in registry :
                                    row.tenant_id = request.header).shard_number
                           ELSE 0]
       IN  req' = [req EXCEPT ![r] =
              IF tenant_info = NoTenantInfo
              THEN [base EXCEPT !.pc = "done",
                       !.response = _handle_no_tenant(request.path)]
              ELSE IF cache_key(tenant_info) \in DOMAIN tenant_cache
              THEN AfterValidation(r, tenant_info,
                                   tenant_cache[cache_key(tenant_info)], base)
              ELSE [base EXCEPT !.pc = "lookup"]]
    /\ UNCHANGED <<init_vars, route_vars, open_sessions, debug, disposals, creator,
                   database_shard_urls, initialized, shard_session_makers,
                   registry, tenant_cache, call, shard_data, det>>

\* _validate_tenant: the registry query of a cache miss
DispatchLookup(r) ==
    /\ req[r].pc = "lookup"
    /\ req' = [req EXCEPT ![r].pc = "fetched",
          ![r].fetched =
              IF req[r].info.type = "subdomain"
              THEN get_tenant_by_subdomain(registry, req[r].info.identifier)
              ELSE select_active_by_tenant_id(registry, req[r].info.identifier)]
    /\ initialized' = TRUE
    /\ shard_session_makers' = MakersAfterInitialize
    /\ UNCHANGED <<init_vars, route_vars, open_sessions, debug, disposals, creator,
                   database_shard_urls, registry, tenant_cache, call,
                   shard_data, det>>

\* _validate_tenant: the result is cached, None included, and returned
DispatchStore(r) ==
    /\ req[r].pc = "fetched"
    /\ tenant_cache' =
          [key \in DOMAIN tenant_cache \cup {cache_key(req[r].info)} |->
              IF key = cache_key(req[r].info) THEN req[r].fetched
              ELSE tenant_cache[key]]
    /\ req' = [req EXCEPT ![r] =
          AfterValidation(r, req[r].info, req[r].fetched, req[r])]
    /\ UNCHANGED <<init_vars, route_vars, open_sessions, debug, disposals, creator,
                   database_shard_urls, initialized, shard_session_makers,
                   registry, call, shard_data, det>>

\* call_next: the downstream handler answers, or raises and dispatch
\* answers 500; the tenant headers are added to the handler's response
DispatchHandler(r, raises) ==
    /\ req[r].pc = "handler"
    /\ req' = [req EXCEPT ![r].pc = "done", ![r].handler_ran = TRUE,
          ![r].response =
              IF raises THEN InternalServerError
              ELSE add_tenant_headers(HandlerResponse,
                                      req[r].state_tenant_id,
                                      req[r].state_tenant_shard)]
    /\ UNCHANGED <<init_vars, route_vars, open_sessions, debug, disposals, creator,
                   database_shard_urls, initialized, shard_session_makers,
                   registry, tenant_cache, call, shard_data, det>>

\* the response is sent and the request is over
DispatchReturn(r) ==
    /\ req[r].pc = "done"
    /\ req' = [req EXCEPT ![r] = IdleReq]
    /\ UNCHANGED <<init_vars, route_vars, open_sessions, debug, disposals, creator,
                   database_shard_urls, initialized, shard_session_makers,
                   registry, tenant_cache, call, shard_data, det>>

(***************************************************************************)
(* DatabaseManager.get_tenant_session.                                     *)
(***************************************************************************)
\* up to the return of get_tenant_shard, which raises for a missing or an
\* inactive tenant
SessionShard(c, tenant_id) ==
    /\ call[c].pc = "idle"
    /\ LET out == get_tenant_shard(registry, tenant_id)
       IN  call' = [call EXCEPT ![c] =
              IF out.error # ""
              THEN [IdleCall EXCEPT !.pc = "failed",
                       !.form = "get_tenant_session",
                       !.tenant_id = tenant_id, !.error = out.error]
              ELSE [IdleCall EXCEPT !.pc = "routed",
                       !.form = "get_tenant_session",
                       !.tenant_id = tenant_id,
                       !.shard_number = out.shard_number]]
    /\ initialized' = TRUE
    /\ shard_session_makers' = MakersAfterInitialize
    /\ UNCHANGED <<init_vars, route_vars, open_sessions, debug, disposals, creator,
                   database_shard_urls, registry, tenant_cache, req, shard_data, det>>

make_session_default_shard(tenant_id, shard_number) ==
    [maker |-> 1, info_tenant_id |-> tenant_id,
     info_shard_number |-> shard_number]

\* session_maker = self.shard_session_makers[shard_number]; the session it
\* makes is tagged with the tenant and the shard
make_session(tenant_id, shard_number) ==
    [maker |-> shard_number, info_tenant_id |-> tenant_id,
     info_shard_number |-> shard_number]

\* The exit of get_tenant_session without the close on an exception: the
\* session of a block that raised stays open.
session_aexit_no_finally(sessions, c, raised) ==
    IF raised THEN sessions ELSE {s \in sessions : s.owner # c}

\* async with session_maker() as session: yield session.  When the caller's
\* block is left, normally or by an exception thrown in at the yield, the
\* async with closes the session.
session_aexit(sessions, c, raised) ==
    {s \in sessions : s.owner # c}

SessionOpen(c) ==
    /\ call[c].pc = "routed"
    /\ IF call[c].shard_number \in shard_session_makers
       THEN LET session == make_session(call[c].tenant_id,
                                        call[c].shard_number)
            IN  /\ call' = [call EXCEPT ![c].pc = "open",
                                        ![c].session = session]
                /\ open_sessions' = open_sessions \cup
                       {[owner |-> c, session |-> session]}
       ELSE /\ call' = [call EXCEPT ![c].pc = "failed",
                                    ![c].error = "KeyError"]
            /\ UNCHANGED open_sessions
    /\ UNCHANGED <<init_vars, route_vars, debug, disposals, creator,
                   database_shard_urls, initialized, shard_session_makers,
                   registry, tenant_cache, req, shard_data, det>>

\* the caller leaves the async with block and the session is closed
SessionClose(c) ==
    /\ call[c].pc = "open"
    /\ call' = [call EXCEPT ![c] = IdleCall]
    /\ open_sessions' = session_aexit(open_sessions, c, FALSE)
    /\ UNCHANGED <<init_vars, route_vars, debug, disposals, creator,
                   database_shard_urls, initialized, shard_session_makers,
                   registry, tenant_cache, req, shard_data, det>>

\* the caller's block raises: the exception passes through the async with,
\* which closes the session, and goes on to the caller
SessionBodyRaises(c) ==
    /\ call[c].pc = "open"
    /\ call' = [call EXCEPT ![c] =
          [IdleCall EXCEPT !.pc = "failed", !.form = call[c].form,
                           !.tenant_id = call[c].tenant_id,
                           !.shard_number = call[c].shard_number,
                           !.error = "BodyError"]]
    /\ open_sessions' = session_aexit(open_sessions, c, TRUE)
    /\ UNCHANGED <<init_vars, route_vars, debug, disposals, creator,
                   database_shard_urls, initialized, shard_session_makers,
                   registry, tenant_cache, req, shard_data, det>>

\* async with get_tenant_db_session(tenant_id) as session.  The function
\* is an async def that returns db_manager.get_tenant_session(tenant_id), so
\* the call gives a coroutine; async with finds no __aenter__ / __aexit__ on
\* it and raises TypeError before any line of get_tenant_session has run.
ConvenienceOpen(c, tenant_id) ==
    /\ call[c].pc = "idle"
    /\ call' = [call EXCEPT ![c] =
          [IdleCall EXCEPT !.pc = "failed", !.form = "get_tenant_db_session",
                           !.tenant_id = tenant_id, !.error = "TypeError"]]
    /\ UNCHANGED <<init_vars, route_vars, open_sessions, debug, disposals,
                   creator, database_shard_urls, initialized,
                   shard_session_makers, registry, tenant_cache, req,
                   shard_data, det>>

\* the error of a failed open has reached the caller
SessionRaise(c) ==
    /\ call[c].pc = "failed"
    /\ call' = [call EXCEPT ![c] = IdleCall]
    /\ UNCHANGED <<init_vars, route_vars, open_sessions, debug, disposals, creator,
                   database_shard_urls, initialized, shard_session_makers,
                   registry, tenant_cache, req, shard_data, det>>

\* The registrations attempted: two that can both succeed, and one that
\* collides with either on the identifier or on the subdomain.
CreateInputs == {<<T_ta, S_sa>>, <<T_tb, S_sb>>, <<T_tb, S_sa>>}

\* Spec runs one request and one caller of get_tenant_session at a time,
\* against any interleaving of registrations and deactivations.
MainReqs == {"r1"}

MainCallers == {"c1"}

Next ==
    \/ Startup
    \/ \E a \in CreateInputs : CreateTenant(a[1], a[2])
    \/ \E t \in TenantIds : Deactivate(t)
    \/ \E r \in MainReqs, arrival \in Arrivals : DispatchBegin(r, arrival)
    \/ \E r \in MainReqs : DispatchLookup(r)
    \/ \E r \in MainReqs : DispatchStore(r)
    \/ \E r \in MainReqs, raises \in BOOLEAN : DispatchHandler(r, raises)
    \/ \E r \in MainReqs : DispatchReturn(r)
    \/ \E c \in MainCallers, t \in TenantIds : SessionShard(c, t)
    \/ \E c \in MainCallers : SessionOpen(c)
    \/ \E c \in MainCallers : SessionClose(c)
    \/ \E c \in MainCallers : SessionRaise(c)

Spec == Init /\ [][Next]_vars

(***************************************************************************)
(* Reads and writes through an open tenant session.  A student row is      *)
(* [id, tenant_id]; the rows of a shard are the students table of that     *)
(* shard's database.                                                       *)
(***************************************************************************)
\* A tenant-scoped write through the session: a student of the session's
\* tenant is added to the session's shard, with the next primary key.
SessionAddStudent(c) ==
    /\ call[c].pc = "open"
    /\ Cardinality(shard_data[call[c].session.maker]) < MaxStudents
    /\ shard_data' = [shard_data EXCEPT ![call[c].session.maker] =
          @ \cup {[id |-> Cardinality(@) + 1,
                   tenant_id |-> call[c].session.info_tenant_id]}]
    /\ UNCHANGED <<init_vars, route_vars, open_sessions, debug, disposals, creator,
                   database_shard_urls, initialized, shard_session_makers,
                   registry, tenant_cache, req, call, det>>

\* session.execute(select(Student)), the use get_tenant_session documents:
\* the statement has no tenant filter and the session adds none
SessionSelectStudents(c) ==
    /\ call[c].pc = "open"
    /\ call' = [call EXCEPT ![c].read = "select",
                   ![c].result = shard_data[call[c].session.maker]]
    /\ UNCHANGED <<init_vars, route_vars, open_sessions, debug, disposals, creator,
                   database_shard_urls, initialized, shard_session_makers,
                   registry, tenant_cache, req, shard_data, det>>

\* TenantAwareQuery(session, tenant_id).query(Student): filtered by tenant
tenant_aware_query(rows, tenant_id) ==
    {row \in rows : row.tenant_id = tenant_id}

\* TenantAwareQuery.get_student(student_id), .first() of the filtered query
TenantAwareGetStudent(c, student_id) ==
    /\ call[c].pc = "open"
    /\ call' = [call EXCEPT ![c].read = "get_student",
          ![c].result =
              {row \in tenant_aware_query(shard_data[call[c].session.maker],
                                          call[c].session.info_tenant_id) :
                  row.id = student_id}]
    /\ UNCHANGED <<init_vars, route_vars, open_sessions, debug, disposals, creator,
                   database_shard_urls, initialized, shard_session_makers,
                   registry, tenant_cache, req, shard_data, det>>

RowsOf(tenant_id) == {row \in registry : row.tenant_id = tenant_id}

NextData ==
    \/ Startup
    \/ \E a \in CreateInputs : CreateTenant(a[1], a[2])
    \/ \E t \in TenantIds : Deactivate(t)
    \/ \E c \in Callers, t \in TenantIds : SessionShard(c, t)
    \/ \E c \in Callers : SessionOpen(c)
    \/ \E c \in Callers : SessionClose(c)
    \/ \E c \in Callers : SessionRaise(c)
    \/ \E c \in Callers : SessionBodyRaises(c)
    \/ \E c \in Callers, t \in TenantIds : ConvenienceOpen(c, t)
    \/ \E c \in Callers : SessionAddStudent(c)
    \/ \E c \in Callers : SessionSelectStudents(c)
    \/ \E c \in Callers, id \in 1..MaxStudents : TenantAwareGetStudent(c, id)

SpecData == Init /\ [][NextData]_vars

\* C1 (as claimed): what a session opened for a tenant returns holds only
\* rows of that tenant, and every row stored on a shard belongs to a
\* tenant assigned to that shard.
C1_SessionIsolation ==
    /\ \A c \in Callers :
          call[c].pc = "open" =>
              \A row \in call[c].result :
                  row.tenant_id = call[c].session.info_tenant_id
    /\ \A s \in AllShards : \A row \in shard_data[s] :
          \E t \in RowsOf(row.tenant_id) : t.shard_number = s

(***************************************************************************)
(* Session opening and the middleware against the registry.                *)
(***************************************************************************)
\* caller c performs the registry lookup of get_tenant_session in this step
LooksUp(c) == call[c].pc = "idle" /\ call'[c].pc # "idle"

\* C2: a call of get_tenant_session whose registry lookup finds the tenant
\* inactive ends with the tenant-inactive error and without a session,
\* whatever tenant_cache holds.
C2_InactiveRejected ==
    [][\A c \in Callers :
          (LooksUp(c) /\ \E row \in RowsOf(call'[c].tenant_id) : ~row.is_active)
              => /\ call'[c].pc = "failed"
                 /\ call'[c].error = "TenantInactive"
                 /\ call'[c].session = NoSession]_vars

\* the open failed as inactive while the middleware cache still holds the
\* tenant's record as active
C2_Witness ==
    \E c \in Callers :
        /\ call[c].pc = "failed"
        /\ call[c].error = "TenantInactive"
        /\ <<"tenant_id", call[c].tenant_id>> \in DOMAIN tenant_cache
        /\ tenant_cache[<<"tenant_id", call[c].tenant_id>>].is_active
        /\ \E row \in RowsOf(call[c].tenant_id) : ~row.is_active

\* C3 (as claimed): a request that arrives after the tenant it designates
\* was deactivated is answered 404 "Tenant not found" and its handler is
\* not invoked.
C3_InactiveGets404 ==
    \A r \in Reqs :
        (req[r].pc = "done" /\ req[r].arrival_inactive)
            => /\ req[r].response.status = 404
               /\ req[r].response.error = "Tenant not found"
               /\ ~req[r].handler_ran

\* C4 (as claimed): a request whose X-Tenant-ID header is the identifier of
\* a tenant registered and active at its arrival and still active is
\* validated: its handler runs with that tenant and its shard in
\* request.state, and an open session of the tenant is on that shard.
C4_RegisteredIsServed ==
    \A r \in Reqs :
        (/\ req[r].pc = "done"
         /\ req[r].arrival_active_shard # 0
         /\ \E row \in RowsOf(req[r].info.identifier) : row.is_active)
            => /\ req[r].handler_ran
               /\ req[r].state_tenant_id = req[r].info.identifier
               /\ req[r].state_tenant_shard = req[r].arrival_active_shard
               /\ \A c \in Callers :
                     (call[c].pc = "open"
                         /\ call[c].tenant_id = req[r].info.identifier)
                     => call[c].session.maker = req[r].arrival_active_shard

\* C5: a call of get_tenant_session whose lookup finds no record fails with
\* TenantNotFound, one that finds an inactive record with TenantInactive,
\* and a failing call creates no session: neither it nor any other caller
\* holds a session it did not hold before; a request answered 400 or 404 by
\* the middleware never reached its handler.
C5_FailsBeforeAnySession ==
    /\ [](\A c \in Callers : call[c].pc = "failed" => call[c].session = NoSession)
    /\ [](\A r \in Reqs :
            (req[r].pc = "done" /\ req[r].response.status \in {400, 404})
                => ~req[r].handler_ran)
    /\ [][\A c \in Callers :
            LooksUp(c) =>
               /\ RowsOf(call'[c].tenant_id) = {} =>
                     (call'[c].pc = "failed"
                         /\ call'[c].error = "TenantNotFound")
               /\ (\E row \in RowsOf(call'[c].tenant_id) : ~row.is_active) =>
                     (call'[c].pc = "failed"
                         /\ call'[c].error = "TenantInactive")
               /\ call'[c].pc = "failed" =>
                     \A d \in Callers : call'[d].session = call[d].session]_vars

\* an open for an identifier the registry does not hold has failed, with
\* another tenant registered
C5_Witness ==
    \E c \in Callers :
        /\ call[c].pc = "failed"
        /\ call[c].error = "TenantNotFound"
        /\ RowsOf(call[c].tenant_id) = {}
        /\ registry # {}

\* C6: every open session was made by the session maker of the shard the
\* registry records for its tenant, a shard the manager holds a maker for,
\* and is tagged with that tenant and that shard.
C6_SessionOnTenantShard ==
    \A c \in Callers :
        call[c].pc = "open" =>
            /\ call[c].session.maker \in shard_session_makers
            /\ call[c].session.info_tenant_id = call[c].tenant_id
            /\ \E row \in RowsOf(call[c].tenant_id) :
                  /\ call[c].session.maker = row.shard_number
                  /\ call[c].session.info_shard_number = row.shard_number

\* a session is open on a shard other than the first
C6_Witness ==
    \E c \in Callers :
        /\ call[c].pc = "open"
        /\ call[c].session.maker # 1
        /\ Cardinality(registry) = 2

\* C7 (as claimed): the response to a request that designates a deactivated
\* tenant is the response the same request gets for an identifier that was
\* never registered, the 404 of _handle_invalid_tenant.
C7_InactiveLikeUnknown ==
    \A r \in Reqs :
        (req[r].pc = "done" /\ req[r].arrival_inactive)
            => req[r].response = _handle_invalid_tenant(req[r].info)

(***************************************************************************)
(* The detection functions applied to bounded inputs: every string over a  *)
(* small alphabet up to a length, and the hosts the module names.          *)
(***************************************************************************)
BoundedStrings(alphabet, n) == UNION {[1..k -> alphabet] : k \in 0..n}

HostAlphabet == {"a", "B", "1", "-", "_", ".", ":"}

ValueAlphabet == {"a", "B", "1", "-", "_", ".", " ", "\t"}

H_lincoln ==
    <<"l", "i", "n", "c", "o", "l", "n", "-", "h", "i", "g", "h", ".",
      "g", "r", "a", "d", "e", "i", "n", "s", "i", "g", "h", "t", ".",
      "c", "o", "m">>

S_lincoln == <<"l", "i", "n", "c", "o", "l", "n", "-", "h", "i", "g", "h">>

H_gradeinsight ==
    <<"g", "r", "a", "d", "e", "i", "n", "s", "i", "g", "h", "t", ".",
      "c", "o", "m">>

H_ip_port == <<"1", "0", ".", "0", ".", "0", ".", "1", ":", "8", "0">>

H_five_numbers == <<"1", "0", ".", "0", ".", "0", ".", "1", ".", "2">>

H_ip_like == <<"1", "0", ".", "0", ".", "a", ".", "1">>

H_Localhost == <<"L", "o", "c", "a", "l", "h", "o", "s", "t">>

NamedHosts ==
    {H_lincoln, H_gradeinsight, H_localhost_8000, S_localhost, H_Localhost,
     S_127_0_0_1, H_ip_port, H_five_numbers, H_ip_like, H_sa}

HostInputs == BoundedStrings(HostAlphabet, MaxHostLen) \cup NamedHosts

ValueInputs == BoundedStrings(ValueAlphabet, MaxValueLen)

V_bad == <<"t", ".", "a">>

DetectRequests ==
    [host : {H_localhost_8000, H_gradeinsight, H_sa, H_lincoln, H_ip_port},
     header : {<<>>, T_ta, V_tb, V_bad},
     query : {<<>>, T_tb, V_bad},
     path : {P_stats}]

InitDetect ==
    /\ InitCommon
    /\ ~debug
    /\ database_shard_urls = {1}
    /\ \/ \E h \in HostInputs :
             det = [kind |-> "host", input |-> h, done |-> FALSE, out |-> None]
       \/ \E v \in ValueInputs, kind \in {"header", "query"} :
             det = [kind |-> kind, input |-> v, done |-> FALSE, out |-> None]
       \/ \E request \in DetectRequests :
             det = [kind |-> "request", input |-> request, done |-> FALSE,
                    out |-> None]

ApplySubdomain ==
    /\ det.kind = "host" /\ ~det.done
    /\ det' = [det EXCEPT !.done = TRUE,
                  !.out = _detect_from_subdomain(det.input)]
    /\ UNCHANGED <<init_vars, route_vars, open_sessions, debug, disposals, creator,
                   database_shard_urls, initialized, shard_session_makers,
                   registry, tenant_cache, req, call, shard_data>>

ApplyHeader ==
    /\ det.kind = "header" /\ ~det.done
    /\ det' = [det EXCEPT !.done = TRUE, !.out = _detect_from_header(det.input)]
    /\ UNCHANGED <<init_vars, route_vars, open_sessions, debug, disposals, creator,
                   database_shard_urls, initialized, shard_session_makers,
                   registry, tenant_cache, req, call, shard_data>>

ApplyQuery ==
    /\ det.kind = "query" /\ ~det.done
    /\ det' = [det EXCEPT !.done = TRUE, !.out = _detect_from_query(det.input)]
    /\ UNCHANGED <<init_vars, route_vars, open_sessions, debug, disposals, creator,
                   database_shard_urls, initialized, shard_session_makers,
                   registry, tenant_cache, req, call, shard_data>>

ApplyDetect ==
    /\ det.kind = "request" /\ ~det.done
    /\ det' = [det EXCEPT !.done = TRUE, !.out = _detect_tenant(det.input)]
    /\ UNCHANGED <<init_vars, route_vars, open_sessions, debug, disposals, creator,
                   database_shard_urls, initialized, shard_session_makers,
                   registry, tenant_cache, req, call, shard_data>>

NextDetect == ApplySubdomain \/ ApplyHeader \/ ApplyQuery \/ ApplyDetect

SpecDetect == InitDetect /\ [][NextDetect]_vars

(***************************************************************************)
(* The rules of detection, stated on the input text.                       *)
(***************************************************************************)
\* the part of s before the first sep, or s when it holds no sep
Before(s, sep) ==
    LET at == {i \in 1..Len(s) : s[i] = sep}
    IN  IF at = {} THEN s
        ELSE SubSeq(s, 1, (CHOOSE i \in at : \A j \in at : i <= j) - 1)

DotCount(s) == Cardinality({i \in 1..Len(s) : s[i] = "."})

\* four non-empty groups of digits separated by dots
BareIPv4(s) ==
    /\ DotCount(s) = 3
    /\ s # <<>> /\ s[1] # "." /\ s[Len(s)] # "."
    /\ \A i \in 1..Len(s) : s[i] \in Digits \cup {"."}
    /\ \A i \in 1..(Len(s) - 1) : ~(s[i] = "." /\ s[i + 1] = ".")

HostWithoutPort(h) == Before(PyLower(h), ":")

FirstLabel(h) == Before(HostWithoutPort(h), ".")

ValidSubdomainHost(h) ==
    /\ DotCount(HostWithoutPort(h)) + 1 >= 3
    /\ HostWithoutPort(h) # S_localhost
    /\ ~BareIPv4(HostWithoutPort(h))
    /\ Len(FirstLabel(h)) >= 2
    /\ \A i \in 1..Len(FirstLabel(h)) :
          FirstLabel(h)[i] \in LowerLetters \cup Digits \cup {"-"}

\* the positions i..j of the value without its surrounding whitespace
TrimmedSpan(v) ==
    {span \in (1..Len(v)) \X (1..Len(v)) :
        /\ span[1] <= span[2]
        /\ v[span[1]] \notin Whitespace /\ v[span[2]] \notin Whitespace
        /\ \A k \in 1..(span[1] - 1) : v[k] \in Whitespace
        /\ \A k \in (span[2] + 1)..Len(v) : v[k] \in Whitespace}

AcceptedValue(v) ==
    \E span \in TrimmedSpan(v) :
        \A k \in span[1]..span[2] :
            v[k] \in LowerLetters \cup UpperLetters \cup Digits \cup {"_", "-"}

NormalizedValue(v) ==
    LET span == CHOOSE span \in TrimmedSpan(v) : TRUE
    IN  PyLower(SubSeq(v, span[1], span[2]))

\* C8: _detect_tenant takes the subdomain when the host has a valid one,
\* whatever the header and the parameter hold; the X-Tenant-ID header only
\* when there is no valid subdomain; the tenant_id parameter only when
\* there is neither; and nothing when there is none of the three.
C8_Precedence ==
    (det.kind = "request" /\ det.done) =>
        LET request == det.input
        IN  /\ ValidSubdomainHost(request.host) =>
                det.out = [method |-> "subdomain", type |-> "subdomain",
                           identifier |-> FirstLabel(request.host)]
            /\ (~ValidSubdomainHost(request.host)
                    /\ AcceptedValue(request.header)) =>
                det.out = [method |-> "header", type |-> "tenant_id",
                           identifier |-> NormalizedValue(request.header)]
            /\ (~ValidSubdomainHost(request.host)
                    /\ ~AcceptedValue(request.header)
                    /\ AcceptedValue(request.query)) =>
                det.out = [method |-> "query", type |-> "tenant_id",
                           identifier |-> NormalizedValue(request.query)]
            /\ (~ValidSubdomainHost(request.host)
                    /\ ~AcceptedValue(request.header)
                    /\ ~AcceptedValue(request.query)) =>
                det.out = NoTenantInfo

\* a valid subdomain and a valid header naming different tenants, resolved
C8_Witness ==
    /\ det.kind = "request" /\ det.done
    /\ ValidSubdomainHost(det.input.host)
    /\ AcceptedValue(det.input.header)
    /\ AcceptedValue(det.input.query)
    /\ NormalizedValue(det.input.header) # FirstLabel(det.input.host)
    /\ det.out.identifier = FirstLabel(det.input.host)

\* C9: _detect_from_subdomain returns the first label of the lower-cased
\* host exactly when the host without its port has at least 3 labels, is
\* neither localhost nor a bare IPv4 address, and that label has at least 2
\* characters, all of them a-z, 0-9 or "-"; otherwise it returns None and
\* _detect_tenant does not answer with the subdomain method.
C9_SubdomainRule ==
    /\ (det.kind = "host" /\ det.done) =>
          det.out = IF ValidSubdomainHost(det.input)
                    THEN FirstLabel(det.input) ELSE None
    /\ (det.kind = "request" /\ det.done
            /\ ~ValidSubdomainHost(det.input.host)) =>
          det.out.method # "subdomain"

\* a host written in upper case with a port, resolved to its lower-cased
\* first label
C9_Witness ==
    /\ det.kind = "host" /\ det.done
    /\ det.out # None
    /\ det.out # Before(det.input, ".")
    /\ \E i \in 1..Len(det.input) : det.input[i] = ":"

\* C10: a header or parameter value is accepted exactly when, without its
\* surrounding whitespace, it is non-empty and holds only letters, digits,
\* "_" and "-"; the identifier is then that trimmed value lower-cased, and
\* a rejected value yields None and is never the identifier of the request.
C10_ValueRule ==
    /\ (det.kind \in {"header", "query"} /\ det.done) =>
          det.out = IF AcceptedValue(det.input)
                    THEN NormalizedValue(det.input) ELSE None
    /\ (det.kind = "request" /\ det.done) =>
          /\ ~AcceptedValue(det.input.header) => det.out.method # "header"
          /\ ~AcceptedValue(det.input.query) => det.out.method # "query"

\* a padded mixed-case parameter value, accepted and normalized
C10_Witness ==
    /\ det.kind = "query" /\ det.done
    /\ det.out # None
    /\ det.out # det.input
    /\ Len(det.out) < Len(det.input)
    /\ det.out # PyStrip(det.input)


(***************************************************************************)
(* The middleware on requests without a tenant, with the development       *)
(* parameter, and on the tenant-exempt paths.                              *)
(***************************************************************************)
\* The middleware alone, in the development and in the production
\* configuration.
P_static_x == P_static_ \o <<"x">>

\* the requests of the other specifications, and requests to further
\* exempt paths without a tenant signal and with a tenant header
GateRequests ==
    RequestSamples \cup
        [host : {H_localhost_8000}, header : {<<>>, T_ta}, query : {<<>>},
         path : {P_root, P_docs, P_static_x, P_admin}]

GateArrivals ==
    {<<request, _detect_tenant(request)>> : request \in GateRequests}

InitGate ==
    /\ InitCommon
    /\ det = IdleDet

NextGate ==
    \/ Startup
    \/ \E a \in CreateInputs : CreateTenant(a[1], a[2])
    \/ \E t \in TenantIds : Deactivate(t)
    \/ \E r \in MainReqs, arrival \in GateArrivals : DispatchBegin(r, arrival)
    \/ \E r \in MainReqs : DispatchLookup(r)
    \/ \E r \in MainReqs : DispatchStore(r)
    \/ \E r \in MainReqs, raises \in BOOLEAN : DispatchHandler(r, raises)
    \/ \E r \in MainReqs : DispatchReturn(r)

SpecGate == InitGate /\ [][NextGate]_vars

\* C11: a request in which _detect_tenant finds no tenant signal, on a path
\* that is not tenant-exempt, is answered 400 "Tenant required" with the
\* message on how to identify the tenant; no tenant context is set and the
\* downstream handler is not invoked.
C11_NoTenantIs400 ==
    \A r \in Reqs :
        (/\ req[r].pc = "done"
         /\ req[r].info = NoTenantInfo
         /\ ~_is_tenant_exempt_path(req[r].path))
            => /\ req[r].response.status = 400
               /\ req[r].response.error = "Tenant required"
               /\ req[r].response.message =
                     "This request requires tenant identification."
               /\ req[r].state_tenant_id = None
               /\ req[r].state_tenant_shard = 0
               /\ ~req[r].handler_ran

\* a request without any signal for a tenant path was answered 400 while a
\* tenant is registered
C11_Witness ==
    \E r \in Reqs :
        /\ req[r].pc = "done"
        /\ req[r].info = NoTenantInfo
        /\ req[r].path = P_stats
        /\ req[r].response.status = 400
        /\ registry # {}

\* C12 (as claimed): with settings.debug false the tenant_id parameter is
\* not used to resolve a tenant: no request is resolved by the query
\* method, and a request whose only signal is the parameter ends without a
\* tenant context and without its handler.
C12_QueryOffInProduction ==
    \A r \in Reqs :
        (~debug /\ req[r].pc # "idle" /\ req[r].info.method = "query")
            => /\ req[r].pc = "done"
               /\ req[r].state_tenant_id = None
               /\ ~req[r].handler_ran
               /\ req[r].response.x_tenant_id = None

\* the tenant-exempt paths: /, /health, /docs, /openapi.json, /redoc,
\* /favicon.ico and everything under /static/
ExemptPath(path) ==
    \/ path \in {P_root, P_health, P_docs, P_openapi, P_redoc, P_favicon}
    \/ PyStartsWith(path, P_static_)

\* C13 (as claimed): a request to a tenant-exempt path is never answered
\* with the 400 or the 404 tenant error, whatever tenant signals it
\* carries, and is passed on to its handler.
C13_ExemptBypasses ==
    \A r \in Reqs :
        (req[r].pc = "done" /\ ExemptPath(req[r].path))
            => /\ req[r].response.status \notin {400, 404}
               /\ req[r].handler_ran


(***************************************************************************)
(* _get_least_loaded_shard applied to the maps of per-shard counts.        *)
(***************************************************************************)
\* The dicts the count query can produce: a positive count for each shard
\* in some set of shards.
CountMaps == UNION {[shards -> 1..MaxCount] : shards \in SUBSET AllShards}

InitPolicy ==
    /\ InitCommon
    /\ ~debug
    /\ \E shard_counts \in CountMaps :
          det = [kind |-> "counts", input |-> shard_counts, done |-> FALSE,
                 out |-> None]

ApplyLeastLoaded ==
    /\ det.kind = "counts" /\ ~det.done
    /\ det' = [det EXCEPT !.done = TRUE,
                  !.out = least_loaded_shard(det.input, database_shard_urls)]
    /\ UNCHANGED <<init_vars, route_vars, open_sessions, debug, disposals, creator, database_shard_urls,
                   initialized, shard_session_makers, registry, tenant_cache,
                   req, call, shard_data>>

NextPolicy == ApplyLeastLoaded

SpecPolicy == InitPolicy /\ [][NextPolicy]_vars

\* the count of a shard in a map, 0 for a shard without tenant
CountOf(counts, s) == IF s \in DOMAIN counts THEN counts[s] ELSE 0

Counts_5_3_3 == [s \in {1, 2, 3} |-> IF s = 1 THEN 5 ELSE 3]

\* C14: for every map of per-shard counts, _get_least_loaded_shard returns
\* a configured shard whose count is the minimum over the configured
\* shards, and the lowest shard id among those with that count; for
\* {1:5, 2:3, 3:3} over shards 1, 2, 3 it returns 2.
C14_LowestLeastLoaded ==
    (det.kind = "counts" /\ det.done) =>
        /\ det.out \in database_shard_urls
        /\ \A s \in database_shard_urls :
              /\ CountOf(det.input, det.out) <= CountOf(det.input, s)
              /\ CountOf(det.input, s) = CountOf(det.input, det.out)
                    => det.out <= s
        /\ (det.input = Counts_5_3_3 /\ database_shard_urls = {1, 2, 3})
              => det.out = 2

\* the counts {1:5, 2:3, 3:3} over three configured shards, answered
C14_Witness ==
    /\ det.kind = "counts" /\ det.done
    /\ det.input = Counts_5_3_3
    /\ database_shard_urls = {1, 2, 3}
    /\ det.out = 2


(***************************************************************************)
(* DatabaseManager.create_tenant step by step, for calls that overlap: the *)
(* count query of _get_least_loaded_shard, the commit of the new row, the  *)
(* refresh of the record, and the return.                                  *)
(***************************************************************************)
\* shard_number = await self._get_least_loaded_shard()
CreateCount(k, tenant_id, subdomain) ==
    /\ creator[k].pc = "idle"
    /\ creator' = [creator EXCEPT ![k] =
          [IdleCreator EXCEPT !.pc = "counted", !.tenant_id = tenant_id,
              !.subdomain = subdomain,
              !.shard_counts = count_by_shard(registry),
              !.shard_number =
                  least_loaded_shard(count_by_shard(registry),
                                     database_shard_urls)]]
    /\ initialized' = TRUE
    /\ shard_session_makers' = MakersAfterInitialize
    /\ UNCHANGED <<init_vars, route_vars, open_sessions, debug, disposals, database_shard_urls, registry,
                   tenant_cache, req, call, shard_data, det>>

\* session.add(tenant_record); await session.commit()
CreateCommit(k) ==
    /\ creator[k].pc = "counted"
    /\ LET tenant_record ==
               new_tenant_record(creator[k].tenant_id, creator[k].subdomain,
                                 creator[k].shard_number)
           out == commit_record(registry, tenant_record)
       IN  /\ registry' = out.registry
           /\ creator' = [creator EXCEPT ![k] =
                 IF out.error # ""
                 THEN [creator[k] EXCEPT !.pc = "done", !.error = out.error]
                 ELSE [creator[k] EXCEPT !.pc = "committed"]]
    /\ UNCHANGED <<init_vars, route_vars, open_sessions, debug, disposals, database_shard_urls, initialized,
                   shard_session_makers, tenant_cache, req, call, shard_data,
                   det>>

\* await session.refresh(tenant_record): the record is read back
CreateRefresh(k) ==
    /\ creator[k].pc = "committed"
    /\ creator' = [creator EXCEPT ![k].pc = "done",
          ![k].returned = select_by_tenant_id(registry, creator[k].tenant_id)]
    /\ UNCHANGED <<init_vars, route_vars, open_sessions, debug, disposals, database_shard_urls, initialized,
                   shard_session_makers, registry, tenant_cache, req, call,
                   shard_data, det>>

\* the record is returned, or the error of the commit reaches the caller
CreateReturn(k) ==
    /\ creator[k].pc = "done"
    /\ creator' = [creator EXCEPT ![k] = IdleCreator]
    /\ UNCHANGED <<init_vars, route_vars, open_sessions, debug, disposals, database_shard_urls, initialized,
                   shard_session_makers, registry, tenant_cache, req, call,
                   shard_data, det>>

NextCreate ==
    \/ Startup
    \/ \E k \in Creators, a \in CreateInputs : CreateCount(k, a[1], a[2])
    \/ \E k \in Creators : CreateCommit(k)
    \/ \E k \in Creators : CreateRefresh(k)
    \/ \E k \in Creators : CreateReturn(k)
    \/ \E t \in TenantIds : Deactivate(t)

SpecCreate == Init /\ [][NextCreate]_vars


\* the steps of a create_tenant call
CountStep(k) == creator[k].pc = "idle" /\ creator'[k].pc = "counted"

CommitStep(k) == creator[k].pc = "counted" /\ creator'[k].pc # "counted"

RefreshStep(k) == creator[k].pc = "committed" /\ creator'[k].pc = "done"

RowsIn(reg, tenant_id) == {row \in reg : row.tenant_id = tenant_id}

RowsOn(reg, s) == {row \in reg : row.shard_number = s}

\* C15: the commit of a create_tenant whose tenant_id or subdomain is
\* already in the registry fails and leaves the registry as it was; any
\* other commit adds exactly one record, with the identifier and the
\* subdomain of the call and no other record changed, and the record
\* returned is that record of the registry.
C15_DuplicateLeavesRegistry ==
    [][\A k \in Creators :
          /\ CommitStep(k) =>
                IF \E row \in registry :
                      \/ row.tenant_id = creator[k].tenant_id
                      \/ row.subdomain = creator[k].subdomain
                THEN /\ creator'[k].pc = "done"
                     /\ creator'[k].error # ""
                     /\ creator'[k].returned = NoRecord
                     /\ registry' = registry
                ELSE /\ creator'[k].error = ""
                     /\ registry \subseteq registry'
                     /\ Cardinality(registry' \ registry) = 1
                     /\ \A row \in registry' \ registry :
                           /\ row.tenant_id = creator[k].tenant_id
                           /\ row.subdomain = creator[k].subdomain
          /\ RefreshStep(k) =>
                /\ creator'[k].error = ""
                /\ creator'[k].returned \in registry
                /\ creator'[k].returned.tenant_id = creator[k].tenant_id
                /\ creator'[k].returned.subdomain = creator[k].subdomain]_vars

\* a registration with a new identifier and a subdomain in use has failed
C15_Witness ==
    \E k \in Creators :
        /\ creator[k].pc = "done"
        /\ creator[k].error # ""
        /\ RowsIn(registry, creator[k].tenant_id) = {}
        /\ \E row \in registry : row.subdomain = creator[k].subdomain

\* C16: the registry never holds two records with the same tenant_id or
\* the same subdomain; of two overlapping create_tenant calls with the
\* same tenant_id or the same subdomain at most one commits, and a failed
\* call collides with a record that is in the registry.
C16_NoDuplicateUnderConcurrency ==
    /\ \A row1, row2 \in registry :
          (\/ row1.tenant_id = row2.tenant_id
           \/ row1.subdomain = row2.subdomain) => row1 = row2
    /\ \A k1, k2 \in Creators :
          (/\ k1 # k2
           /\ creator[k1].pc \in {"committed", "done"}
           /\ creator[k2].pc \in {"committed", "done"}
           /\ \/ creator[k1].tenant_id = creator[k2].tenant_id
              \/ creator[k1].subdomain = creator[k2].subdomain)
              => ~(creator[k1].error = "" /\ creator[k2].error = "")
    /\ \A k \in Creators :
          (creator[k].pc = "done" /\ creator[k].error # "")
              => \E row \in registry :
                    \/ row.tenant_id = creator[k].tenant_id
                    \/ row.subdomain = creator[k].subdomain

\* two calls that both read their counts from the empty registry: one has
\* committed, the other has failed
C16_Witness ==
    \E k1, k2 \in Creators :
        /\ k1 # k2
        /\ creator[k1].pc = "done" /\ creator[k1].error = ""
        /\ creator[k2].pc = "done" /\ creator[k2].error # ""
        /\ DOMAIN creator[k1].shard_counts = {}
        /\ DOMAIN creator[k2].shard_counts = {}
        /\ creator[k1].tenant_id # creator[k2].tenant_id
        /\ Cardinality(registry) = 1

\* the shard the assignment policy gives for the rows of a registry: the
\* lowest of the configured shards with the fewest rows
PolicyChoice(reg, urls) ==
    CHOOSE s \in urls :
        \A t \in urls :
            \/ Cardinality(RowsOn(reg, s)) < Cardinality(RowsOn(reg, t))
            \/ /\ Cardinality(RowsOn(reg, s)) = Cardinality(RowsOn(reg, t))
               /\ s <= t

\* C20: the counts a create_tenant call uses are the numbers of records per
\* shard in the registry at the count query of that call, the shard it
\* chooses is the policy applied to them, and the record the call commits
\* is on that shard.
C20_FreshCounts ==
    [][\A k \in Creators :
          /\ CountStep(k) =>
                /\ \A s \in AllShards :
                      CountOf(creator'[k].shard_counts, s)
                          = Cardinality(RowsOn(registry, s))
                /\ creator'[k].shard_number
                      = PolicyChoice(registry, database_shard_urls)
          /\ creator[k].pc \in {"counted", "committed"} =>
                /\ creator'[k].shard_counts = creator[k].shard_counts
                /\ creator'[k].shard_number = creator[k].shard_number
          /\ (CommitStep(k) /\ creator'[k].error = "") =>
                /\ registry' # registry
                /\ \A row \in registry' \ registry :
                      row.shard_number = creator[k].shard_number]_vars

\* a second registration has counted one tenant on shard 1 and committed
\* its record on shard 2
C20_Witness ==
    \E k \in Creators :
        /\ creator[k].pc = "done" /\ creator[k].error = ""
        /\ DOMAIN creator[k].shard_counts = {1}
        /\ creator[k].returned.shard_number = 2
        /\ Cardinality(registry) = 2

\* C18: a registered tenant stays registered, a tenant is registered as
\* active, and an inactive tenant stays inactive.
C18_StatusOnlyForward ==
    [][\A t \in TenantIds :
          /\ RowsIn(registry, t) # {} => RowsIn(registry', t) # {}
          /\ RowsIn(registry, t) = {} =>
                \A row \in RowsIn(registry', t) : row.is_active
          /\ (\E row \in RowsIn(registry, t) : ~row.is_active) =>
                \A row \in RowsIn(registry', t) : ~row.is_active]_vars

\* a create_tenant for the identifier of an inactive tenant has failed and
\* the tenant is still inactive
C18_Witness ==
    \E k \in Creators :
        /\ creator[k].pc = "done" /\ creator[k].error # ""
        /\ \E row \in RowsIn(registry, creator[k].tenant_id) : ~row.is_active


\* the step in which tenant t is deactivated
DeactivationStep(t) ==
    /\ \E row \in RowsIn(registry, t) : row.is_active
    /\ \E row \in RowsIn(registry', t) : ~row.is_active

\* C19: the deactivation of a tenant clears the active flag of its record
\* and changes nothing else: the record keeps its shard, every other record
\* and every stored student row are as before, and so are the per-shard
\* counts and the shard that _get_least_loaded_shard gives a later
\* registration.
C19_DeactivateFrame ==
    [][\A t \in TenantIds :
          DeactivationStep(t) =>
             /\ registry' =
                   {IF row.tenant_id = t /\ row.is_active
                    THEN [tenant_id |-> row.tenant_id,
                          subdomain |-> row.subdomain,
                          shard_number |-> row.shard_number,
                          is_active |-> FALSE]
                    ELSE row : row \in registry}
             /\ Cardinality(registry') = Cardinality(registry)
             /\ shard_data' = shard_data
             /\ count_by_shard(registry') = count_by_shard(registry)
             /\ _get_least_loaded_shard(registry', database_shard_urls)
                   = _get_least_loaded_shard(registry, database_shard_urls)]_vars

\* a deactivated tenant whose student rows are still on its shard, beside
\* another registered tenant
C19_Witness ==
    /\ Cardinality(registry) = 2
    /\ \E row \in registry :
          /\ ~row.is_active
          /\ \E student \in shard_data[row.shard_number] :
                student.tenant_id = row.tenant_id


(***************************************************************************)
(* The life of the process with shutdown: registrations, deactivations,    *)
(* requests, session opens and close_all_connections.                      *)
(***************************************************************************)
\* close_all_connections: every engine of shard_engines and the registry
\* engine are disposed; the session makers, _initialized and the registry
\* rows stay.  Before initialization there is no engine and the call
\* changes nothing.
CloseAllConnections ==
    /\ initialized
    /\ disposals < MaxCloses
    /\ disposals' = disposals + 1
    /\ UNCHANGED <<init_vars, route_vars, open_sessions, debug, creator, database_shard_urls, initialized,
                   shard_session_makers, registry, tenant_cache, req, call,
                   shard_data, det>>

\* the requests of this specification: a tenant path, a host without and
\* with a subdomain, the header absent, exact, and padded in mixed case
LifeArrivals ==
    {arrival \in Arrivals :
        arrival[1].path = P_stats /\ arrival[1].query = <<>>}

NextLife ==
    \/ Startup
    \/ CloseAllConnections
    \/ \E a \in CreateInputs : CreateTenant(a[1], a[2])
    \/ \E t \in TenantIds : Deactivate(t)
    \/ \E r \in MainReqs, arrival \in LifeArrivals : DispatchBegin(r, arrival)
    \/ \E r \in MainReqs : DispatchLookup(r)
    \/ \E r \in MainReqs : DispatchStore(r)
    \/ \E r \in MainReqs, raises \in BOOLEAN : DispatchHandler(r, raises)
    \/ \E r \in MainReqs : DispatchReturn(r)
    \/ \E c \in MainCallers, t \in TenantIds : SessionShard(c, t)
    \/ \E c \in MainCallers : SessionOpen(c)
    \/ \E c \in MainCallers : SessionClose(c)
    \/ \E c \in MainCallers : SessionRaise(c)

SpecLife == Init /\ [][NextLife]_vars

\* C17: the record of a tenant keeps its shard_number on every step, and
\* every lookup that yields a shard for a tenant yields the shard of its
\* record: get_tenant_shard inside a session open, the record the
\* middleware validated and put in request.state, and every record in the
\* middleware cache, by tenant_id and by subdomain.
C17_ShardImmutable ==
    /\ [][\A row \in registry :
             \E later \in RowsIn(registry', row.tenant_id) :
                later.shard_number = row.shard_number]_vars
    /\ [](\A c \in Callers :
             call[c].pc \in {"routed", "open"} =>
                \E row \in RowsIn(registry, call[c].tenant_id) :
                   row.shard_number = call[c].shard_number)
    /\ [](\A r \in Reqs :
             req[r].state_tenant_id # None =>
                \E row \in RowsIn(registry, req[r].state_tenant_id) :
                   row.shard_number = req[r].state_tenant_shard)
    /\ [](\A key \in DOMAIN tenant_cache :
             tenant_cache[key] # NoRecord =>
                \E row \in RowsIn(registry, tenant_cache[key].tenant_id) :
                   /\ row.shard_number = tenant_cache[key].shard_number
                   /\ key[1] = "subdomain" => row.subdomain = key[2])

\* after a shutdown and a deactivation, a request is served from the cache
\* with the shard of the record, a shard other than the first
C17_Witness ==
    /\ disposals > 0
    /\ \E r \in Reqs :
          /\ req[r].pc = "handler"
          /\ req[r].state_tenant_shard # 1
          /\ \E row \in RowsIn(registry, req[r].state_tenant_id) :
                ~row.is_active /\ row.shard_number = req[r].state_tenant_shard


\* C21 (as claimed): over the life of the process every engine is disposed
\* at most once: a second close_all_connections disposes no engine again.
C21_DisposedOnce == disposals <= 1

(***************************************************************************)
(* Initialization step by step.  initialize has no lock: it tests          *)
(* _initialized, suspends at every engine.begin(), and sets _initialized   *)
(* after the last shard.  The callers are the lifespan startup and the     *)
(* lazy initialization of get_tenant_registry_session and                  *)
(* get_tenant_session, which run it before their registry query.           *)
(***************************************************************************)
InitVias == {"startup", "lookup"}

\* Where a caller goes once initialize has returned: a registry lookup goes
\* on to its query on the registry engine, the startup is done.
AfterInitialize(via) == IF via = "lookup" THEN "query" ELSE "done"

\* initialize up to its first suspension: the test of _initialized, then
\* _initialize_tenant_registry creates the registry engine and waits for
\* engine.begin().
InitializeCall(i, via) ==
    /\ initer[i].pc = "idle"
    /\ IF initialized
       THEN /\ initer' = [initer EXCEPT ![i] =
                   [pc |-> AfterInitialize(via), via |-> via, next |-> 0]]
            /\ UNCHANGED engines_made
       ELSE /\ initer' = [initer EXCEPT ![i] =
                   [pc |-> "registry_tables", via |-> via, next |-> 0]]
            /\ engines_made' = [engines_made EXCEPT ![0] = @ + 1]
    /\ UNCHANGED <<shard_status, route_vars, open_sessions, debug, disposals,
                   creator, database_shard_urls, initialized,
                   shard_session_makers, registry, tenant_cache, req, call,
                   shard_data, det>>

\* The registry tables are created; _initialize_shards starts its loop: it
\* creates the first shard's engine and session maker, stores them, and
\* waits for that shard's engine.begin().
InitializeRegistryTables(i) ==
    LET shards == available_shards(database_shard_urls)
    IN  /\ initer[i].pc = "registry_tables"
        /\ Len(shards) > 0
        /\ initer' = [initer EXCEPT ![i].pc = "shard_tables", ![i].next = 1]
        /\ engines_made' = [engines_made EXCEPT ![shards[1]] = @ + 1]
        /\ shard_session_makers' = shard_session_makers \cup {shards[1]}
        /\ UNCHANGED <<shard_status, route_vars, open_sessions, debug,
                       disposals, creator, database_shard_urls, initialized,
                       registry, tenant_cache, req, call, shard_data, det>>

\* One shard's tables are created, which needs that shard to answer; the
\* loop goes on to the next shard's engine, or initialize sets _initialized
\* and returns.
InitializeShardTables(i) ==
    LET shards == available_shards(database_shard_urls)
        n == initer[i].next
    IN  /\ initer[i].pc = "shard_tables"
        /\ shard_status[shards[n]] = "up"
        /\ IF n < Len(shards)
           THEN /\ initer' = [initer EXCEPT ![i].next = n + 1]
                /\ engines_made' =
                       [engines_made EXCEPT ![shards[n + 1]] = @ + 1]
                /\ shard_session_makers' =
                       shard_session_makers \cup {shards[n + 1]}
                /\ UNCHANGED initialized
           ELSE /\ initer' = [initer EXCEPT
                       ![i].pc = AfterInitialize(initer[i].via),
                       ![i].next = 0]
                /\ initialized' = TRUE
                /\ UNCHANGED <<engines_made, shard_session_makers>>
        /\ UNCHANGED <<shard_status, route_vars, open_sessions, debug,
                       disposals, creator, database_shard_urls, registry,
                       tenant_cache, req, call, shard_data, det>>

\* The lookup's own query, on the registry engine alone.
RegistryQuery(i) ==
    /\ initer[i].pc = "query"
    /\ initer' = [initer EXCEPT ![i].pc = "done"]
    /\ UNCHANGED <<engines_made, shard_status, route_vars, open_sessions,
                   debug, disposals, creator, database_shard_urls,
                   initialized, shard_session_makers, registry, tenant_cache,
                   req, call, shard_data, det>>

InitializeReturn(i) ==
    /\ initer[i].pc = "done"
    /\ initer' = [initer EXCEPT ![i] = IdleIniter]
    /\ UNCHANGED <<engines_made, shard_status, route_vars, open_sessions,
                   debug, disposals, creator, database_shard_urls,
                   initialized, shard_session_makers, registry, tenant_cache,
                   req, call, shard_data, det>>

\* A shard database stops answering, and answers again.
ShardSlows(s) ==
    /\ s \in database_shard_urls
    /\ shard_status[s] = "up"
    /\ shard_status' = [shard_status EXCEPT ![s] = "slow"]
    /\ UNCHANGED <<initer, engines_made, route_vars, open_sessions, debug,
                   disposals, creator, database_shard_urls, initialized,
                   shard_session_makers, registry, tenant_cache, req, call,
                   shard_data, det>>

ShardRecovers(s) ==
    /\ shard_status[s] # "up"
    /\ shard_status' = [shard_status EXCEPT ![s] = "up"]
    /\ UNCHANGED <<initer, engines_made, route_vars, open_sessions, debug,
                   disposals, creator, database_shard_urls, initialized,
                   shard_session_makers, registry, tenant_cache, req, call,
                   shard_data, det>>

NextInit ==
    \/ \E i \in Initers, via \in InitVias : InitializeCall(i, via)
    \/ \E i \in Initers : InitializeRegistryTables(i)
    \/ \E i \in Initers : InitializeShardTables(i)
    \/ \E i \in Initers : RegistryQuery(i)
    \/ \E i \in Initers : InitializeReturn(i)
    \/ \E s \in AllShards : ShardSlows(s)
    \/ \E s \in AllShards : ShardRecovers(s)

SpecInit == Init /\ [][NextInit]_vars

\* C22 (as claimed): whatever the number of callers of initialize, lazy
\* initialization by concurrent first requests included, the engine of the
\* registry and the engine of each shard are created at most once.
C22_OneEnginePerShard == \A e \in EngineKeys : engines_made[e] <= 1

\* C26 (as claimed): a registry lookup never waits on a shard engine: while
\* a shard is slow, no lookup is held at that shard's engine.begin().
C26_LookupNeverWaitsOnShard ==
    \A i \in Initers :
        (initer[i].via = "lookup" /\ initer[i].pc = "shard_tables") =>
            shard_status[available_shards(database_shard_urls)
                             [initer[i].next]] = "up"

(***************************************************************************)
(* The lifetime of a tenant session.                                       *)
(***************************************************************************)
SessionsOf(c) == {s \in open_sessions : s.owner = c}

\* C23: every open session is the one its caller is using inside its
\* async with block, and the step that leaves the block, normally or by an
\* exception, leaves no session of that caller open: none is kept for the
\* caller's next use or for another caller.
C23_SessionClosedAtExit ==
    /\ [](\A s \in open_sessions :
             /\ call[s.owner].pc = "open"
             /\ call[s.owner].session = s.session)
    /\ [](\A c \in Callers : Cardinality(SessionsOf(c)) <= 1)
    /\ [][\A c \in Callers :
             (call[c].pc = "open" /\ call'[c].pc # "open") =>
                 SessionsOf(c)' = {}]_vars

\* A block has raised: the error is on its way to the caller, the block's
\* session is closed, and the other caller's session is still open.
C23_Witness ==
    \E c, d \in Callers :
        /\ call[c].pc = "failed"
        /\ call[c].error = "BodyError"
        /\ SessionsOf(c) = {}
        /\ call[d].pc = "open"
        /\ SessionsOf(d) # {}

(***************************************************************************)
(* Failures inside dispatch: an exception while the tenant is detected or  *)
(* validated, and a handler whose tenant's shard cannot be reached.        *)
(***************************************************************************)
\* _validate_tenant's except Exception: the error is printed and None is
\* returned; nothing is cached.
validate_tenant_on_error == NoRecord

\* The registry lookup of a cache miss raises.  _validate_tenant returns
\* None and dispatch goes on as for a tenant that does not exist.
DispatchLookupRaises(r) ==
    /\ req[r].pc = "lookup"
    /\ req' = [req EXCEPT ![r] =
          AfterValidation(r, req[r].info, validate_tenant_on_error,
                          [req[r] EXCEPT !.raised_in = "validate"])]
    /\ UNCHANGED <<init_vars, route_vars, open_sessions, debug, disposals,
                   creator, database_shard_urls, initialized,
                   shard_session_makers, registry, tenant_cache, call,
                   shard_data, det>>

\* _detect_tenant raises: the exception reaches the except of dispatch.
DispatchDetectRaises(r, arrival) ==
    /\ req[r].pc = "idle"
    /\ req' = [req EXCEPT ![r] =
          [IdleReq EXCEPT !.pc = "done", !.path = arrival[1].path,
                          !.raised_in = "detect",
                          !.response = InternalServerError]]
    /\ UNCHANGED <<init_vars, route_vars, open_sessions, debug, disposals,
                   creator, database_shard_urls, initialized,
                   shard_session_makers, registry, tenant_cache, call,
                   shard_data, det>>

\* The two ways the handlers ask for a session.
SessionForms == {"get_tenant_session", "get_tenant_db_session"}

\* The error that a handler's query through its tenant's session raises,
\* "" when there is none: get_tenant_shard raises for a missing or inactive
\* tenant, shard_session_makers[shard_number] for a shard without a maker,
\* and the first execute for a shard that cannot be reached (the session
\* connects when it first executes).
handler_query_error(reg, tenant_id, makers, status) ==
    LET out == get_tenant_shard(reg, tenant_id)
    IN  IF out.error # "" THEN out.error
        ELSE IF out.shard_number \notin makers THEN "KeyError"
        ELSE IF status[out.shard_number] = "down" THEN "OperationalError"
        ELSE ""

dispatch_call_next_no_data(error, tenant_id, tenant_shard) ==
    add_tenant_headers(HandlerResponse, tenant_id, tenant_shard)

\* response = await call_next(request) and the lines after it: no handler
\* catches the errors of its session, so an error leaves call_next and the
\* except of dispatch answers 500; else the headers are added.
dispatch_call_next(error, tenant_id, tenant_shard) ==
    IF error # "" THEN InternalServerError
    ELSE add_tenant_headers(HandlerResponse, tenant_id, tenant_shard)

\* call_next with a handler that queries its tenant's shard, asking for the
\* session in either form.
DispatchHandlerQuery(r, form) ==
    /\ req[r].pc = "handler"
    /\ LET error ==
              IF form = "get_tenant_db_session" THEN "TypeError"
              ELSE handler_query_error(registry, req[r].state_tenant_id,
                                       MakersAfterInitialize, shard_status)
       IN  req' = [req EXCEPT ![r].pc = "done", ![r].handler_ran = TRUE,
              ![r].handler_error = error,
              ![r].response =
                  dispatch_call_next(error, req[r].state_tenant_id,
                                     req[r].state_tenant_shard)]
    /\ initialized' = (initialized \/ form = "get_tenant_session")
    /\ shard_session_makers' =
          IF form = "get_tenant_session" THEN MakersAfterInitialize
          ELSE shard_session_makers
    /\ UNCHANGED <<init_vars, route_vars, open_sessions, debug, disposals,
                   creator, database_shard_urls, registry, tenant_cache,
                   call, shard_data, det>>

\* A shard database goes down: connections to it are refused.
ShardFails(s) ==
    /\ s \in database_shard_urls
    /\ shard_status[s] = "up"
    /\ shard_status' = [shard_status EXCEPT ![s] = "down"]
    /\ UNCHANGED <<initer, engines_made, route_vars, open_sessions, debug,
                   disposals, creator, database_shard_urls, initialized,
                   shard_session_makers, registry, tenant_cache, req, call,
                   shard_data, det>>

NextFault ==
    \/ Startup
    \/ \E a \in CreateInputs : CreateTenant(a[1], a[2])
    \/ \E t \in TenantIds : Deactivate(t)
    \/ \E s \in AllShards : ShardFails(s)
    \/ \E s \in AllShards : ShardRecovers(s)
    \/ \E r \in MainReqs, arrival \in LifeArrivals : DispatchBegin(r, arrival)
    \/ \E r \in MainReqs, arrival \in LifeArrivals :
          DispatchDetectRaises(r, arrival)
    \/ \E r \in MainReqs : DispatchLookup(r)
    \/ \E r \in MainReqs : DispatchLookupRaises(r)
    \/ \E r \in MainReqs : DispatchStore(r)
    \/ \E r \in MainReqs, form \in SessionForms : DispatchHandlerQuery(r, form)
    \/ \E r \in MainReqs : DispatchReturn(r)

SpecFault == Init /\ [][NextFault]_vars

\* C24 (as claimed): a request during which detection or validation raised
\* is answered with the generic 500 response.
C24_ResolutionErrorIs500 ==
    \A r \in Reqs :
        (req[r].pc = "done" /\ req[r].raised_in # "") =>
            req[r].response = InternalServerError

\* C25: a handler that runs while the shard assigned to its tenant is down
\* ends the request with the 500 response, and a request whose handler's
\* query raised is never answered with a success.
C25_UnreachableShardIs500 ==
    /\ [][\A r \in Reqs :
             LET out == get_tenant_shard(registry, req[r].state_tenant_id)
             IN  (/\ req[r].pc = "handler"
                  /\ req'[r].pc = "done"
                  /\ out.error = ""
                  /\ shard_status[out.shard_number] = "down")
                 => req'[r].response = InternalServerError]_vars
    /\ [](\A r \in Reqs :
             (req[r].pc = "done" /\ req[r].handler_error # "") =>
                 req[r].response.status = 500)

\* A handler's query failed on its tenant's shard, which is down, and the
\* request got the 500 response.
C25_Witness ==
    \E r \in Reqs :
        /\ req[r].pc = "done"
        /\ req[r].handler_error = "OperationalError"
        /\ shard_status[req[r].state_tenant_shard] = "down"
        /\ req[r].state_tenant_shard = 2
        /\ req[r].response = InternalServerError

(***************************************************************************)
(* The tenant context a handler runs with, and the response headers.       *)
(***************************************************************************)
\* TenantContextManager.get_tenant_id: 400 unless request.state carries a
\* tenant_id.
get_tenant_id(state_tenant_id) ==
    IF state_tenant_id = None
    THEN [status |-> 400, tenant_id |-> None]
    ELSE [status |-> 200, tenant_id |-> state_tenant_id]

\* The registry records that the request's identifier designates, active
\* or not.
MatchedRows(r) ==
    {row \in registry :
        IF req[r].info.type = "subdomain"
        THEN row.subdomain = req[r].info.identifier
        ELSE row.tenant_id = req[r].info.identifier}

\* C27: a request at or past its handler carries in request.state the
\* tenant_id and the shard_number of a registry record that its identifier
\* designates, and a request answered without a handler never got a tenant
\* context.
C27_HandlerOnlyValidated ==
    \A r \in Reqs :
        /\ (req[r].pc = "handler" \/ req[r].handler_ran) =>
              /\ get_tenant_id(req[r].state_tenant_id).status = 200
              /\ \E row \in MatchedRows(r) :
                    /\ req[r].state_tenant_id = row.tenant_id
                    /\ req[r].state_tenant_shard = row.shard_number
        /\ (req[r].pc = "done" /\ ~req[r].handler_ran) =>
              get_tenant_id(req[r].state_tenant_id).status = 400

\* A handler has run for a request identified by subdomain: the context
\* holds the record's tenant_id, which is not the subdomain, and shard 2.
C27_Witness ==
    \E r \in Reqs :
        /\ req[r].handler_ran
        /\ req[r].info.type = "subdomain"
        /\ req[r].state_tenant_id # req[r].info.identifier
        /\ req[r].state_tenant_id \in TenantIds
        /\ req[r].state_tenant_shard = 2

\* C28: the response of a handler that returned carries X-Tenant-ID equal
\* to the validated tenant's id and X-Shard-Number equal to str of the
\* shard of that tenant's registry record.
C28_ResponseHeaders ==
    \A r \in Reqs :
        (req[r].pc = "done" /\ req[r].handler_ran
            /\ req[r].response.status = 200) =>
            /\ req[r].response.x_tenant_id = req[r].state_tenant_id
            /\ \E row \in registry :
                  /\ row.tenant_id = req[r].response.x_tenant_id
                  /\ req[r].response.x_shard_number =
                         PyStrInt(row.shard_number)
            /\ req[r].response.x_shard_number \in {<<"1">>, <<"2">>, <<"3">>}

\* A handler's response for a tenant of shard 2 carries "2".
C28_Witness ==
    \E r \in Reqs :
        /\ req[r].pc = "done"
        /\ req[r].handler_ran
        /\ req[r].response.status = 200
        /\ req[r].response.x_tenant_id = T_tb
        /\ req[r].response.x_shard_number = <<"2">>

\* C29 (as claimed): asking for a session with get_tenant_db_session has the
\* outcome of get_tenant_session for the same tenant: the same error for a
\* missing or inactive tenant, and for an active one a session on the way
\* to the tenant's shard.
C29_ConvenienceSameAsSession ==
    [][\A c \in Callers :
          (call[c].pc = "idle" /\ call'[c].form = "get_tenant_db_session") =>
              LET out == get_tenant_shard(registry, call'[c].tenant_id)
              IN  /\ call'[c].error = out.error
                  /\ out.error = "" =>
                        /\ call'[c].pc = "routed"
                        /\ call'[c].shard_number = out.shard_number]_vars

(***************************************************************************)
(* The students and grades routes over their in-memory lists, and          *)
(* ensure_tenant_resource_access over the rows of a shard.  A record is    *)
(* [id, tenant_id]; the other fields play no part in the scoping.          *)
(***************************************************************************)
\* routes/students.py and routes/grades.py get_tenant_id: the tenant_id of
\* request.state, 400 when it is missing or falsy
routes_get_tenant_id(state_tenant_id) ==
    IF state_tenant_id = None \/ state_tenant_id = <<>>
    THEN [status |-> 400, tenant_id |-> None]
    ELSE [status |-> 200, tenant_id |-> state_tenant_id]

\* new_id = len(STUDENTS) + 1; the dict gets id and tenant_id; append
create_student(students, tenant_id) ==
    Append(students, [id |-> Len(students) + 1, tenant_id |-> tenant_id])

\* [s for s in STUDENTS if s["tenant_id"] == tenant_id]
list_students(students, tenant_id) ==
    SelectSeq(students, LAMBDA s : s.tenant_id = tenant_id)

get_student_any_tenant(students, student_id, tenant_id) ==
    LET found == SelectSeq(students, LAMBDA s : s.id = student_id)
    IN  IF found = <<>> THEN [status |-> 404, result |-> <<>>]
        ELSE [status |-> 200, result |-> <<found[1]>>]

\* the first s with s["id"] == student_id and s["tenant_id"] == tenant_id,
\* else HTTPException(404)
get_student(students, student_id, tenant_id) ==
    LET found == SelectSeq(students,
                     LAMBDA s : s.id = student_id /\ s.tenant_id = tenant_id)
    IN  IF found = <<>> THEN [status |-> 404, result |-> <<>>]
        ELSE [status |-> 200, result |-> <<found[1]>>]

create_grade(grades, tenant_id) ==
    Append(grades, [id |-> Len(grades) + 1, tenant_id |-> tenant_id])

list_grades(grades, tenant_id) ==
    SelectSeq(grades, LAMBDA g : g.tenant_id = tenant_id)

get_grade(grades, grade_id, tenant_id) ==
    LET found == SelectSeq(grades,
                     LAMBDA g : g.id = grade_id /\ g.tenant_id = tenant_id)
    IN  IF found = <<>> THEN [status |-> 404, result |-> <<>>]
        ELSE [status |-> 200, result |-> <<found[1]>>]

\* select(model_class).where(id == resource_id, tenant_id == tenant_id),
\* and is_active == True for a model that has the column (Student has);
\* 404 when scalar_one_or_none gives nothing
ensure_tenant_resource_access(rows, resource_id, tenant_id) ==
    LET found == {row \in rows :
                     /\ row.id = resource_id
                     /\ row.tenant_id = tenant_id
                     /\ row.is_active}
    IN  IF found = {} THEN [status |-> 404, result |-> <<>>]
        ELSE [status |-> 200, result |-> <<CHOOSE row \in found : TRUE>>]

\* The tenant_id a route finds in request.state: a validated tenant's, or
\* none.
RouteTenants == TenantIds \cup {None, <<>>}

RouteIds == 1..MaxStudents

\* The students tables that the shard databases hold from earlier runs:
\* two tenants share shard 1, whose primary keys are its own; one
\* sample holds a deactivated student.
StoredStudents ==
    {[s \in AllShards |->
         IF s = 1
         THEN {[id |-> 1, tenant_id |-> T_ta, is_active |-> a],
               [id |-> 2, tenant_id |-> T_tb, is_active |-> TRUE]}
         ELSE {}] : a \in BOOLEAN}

InitRoutes ==
    /\ debug = FALSE
    /\ database_shard_urls \in ShardConfigs
    /\ disposals = 0
    /\ creator = [k \in Creators |-> IdleCreator]
    /\ initer = [i \in Initers |-> IdleIniter]
    /\ engines_made = [e \in EngineKeys |-> 0]
    /\ shard_status = [s \in AllShards |-> "up"]
    /\ open_sessions = {}
    /\ STUDENTS = <<>>
    /\ GRADES = <<>>
    /\ route = IdleRoute
    /\ initialized = FALSE
    /\ shard_session_makers = {}
    /\ registry = {}
    /\ tenant_cache = [key \in {} |-> NoRecord]
    /\ req = [r \in Reqs |-> IdleReq]
    /\ call = [c \in Callers |-> IdleCall]
    /\ shard_data \in StoredStudents
    /\ det = IdleDet

RouteFrame ==
    UNCHANGED <<init_vars, open_sessions, debug, disposals, creator,
                database_shard_urls, initialized, shard_session_makers,
                registry, tenant_cache, req, call, shard_data, det>>

\* The answer of a route whose get_tenant_id dependency raised.
TenantContextMissing(op, tenant_id, id) ==
    [op |-> op, tenant_id |-> tenant_id, id |-> id, status |-> 400,
     result |-> <<>>]

CreateStudent(tenant_id) ==
    /\ Len(STUDENTS) < MaxStudents
    /\ IF routes_get_tenant_id(tenant_id).status = 400
       THEN /\ route' = TenantContextMissing("create_student", tenant_id, 0)
            /\ UNCHANGED STUDENTS
       ELSE /\ STUDENTS' = create_student(STUDENTS, tenant_id)
            /\ route' = [op |-> "create_student", tenant_id |-> tenant_id,
                         id |-> 0, status |-> 200,
                         result |-> <<STUDENTS'[Len(STUDENTS')]>>]
    /\ UNCHANGED GRADES
    /\ RouteFrame

ListStudents(tenant_id) ==
    /\ route' =
          IF routes_get_tenant_id(tenant_id).status = 400
          THEN TenantContextMissing("list_students", tenant_id, 0)
          ELSE [op |-> "list_students", tenant_id |-> tenant_id, id |-> 0,
                status |-> 200, result |-> list_students(STUDENTS, tenant_id)]
    /\ UNCHANGED <<STUDENTS, GRADES>>
    /\ RouteFrame

GetStudent(tenant_id, student_id) ==
    /\ route' =
          IF routes_get_tenant_id(tenant_id).status = 400
          THEN TenantContextMissing("get_student", tenant_id, student_id)
          ELSE LET out == get_student(STUDENTS, student_id, tenant_id)
               IN  [op |-> "get_student", tenant_id |-> tenant_id,
                    id |-> student_id, status |-> out.status,
                    result |-> out.result]
    /\ UNCHANGED <<STUDENTS, GRADES>>
    /\ RouteFrame

CreateGrade(tenant_id) ==
    /\ Len(GRADES) < MaxStudents
    /\ IF routes_get_tenant_id(tenant_id).status = 400
       THEN /\ route' = TenantContextMissing("create_grade", tenant_id, 0)
            /\ UNCHANGED GRADES
       ELSE /\ GRADES' = create_grade(GRADES, tenant_id)
            /\ route' = [op |-> "create_grade", tenant_id |-> tenant_id,
                         id |-> 0, status |-> 200,
                         result |-> <<GRADES'[Len(GRADES')]>>]
    /\ UNCHANGED STUDENTS
    /\ RouteFrame

ListGrades(tenant_id) ==
    /\ route' =
          IF routes_get_tenant_id(tenant_id).status = 400
          THEN TenantContextMissing("list_grades", tenant_id, 0)
          ELSE [op |-> "list_grades", tenant_id |-> tenant_id, id |-> 0,
                status |-> 200, result |-> list_grades(GRADES, tenant_id)]
    /\ UNCHANGED <<STUDENTS, GRADES>>
    /\ RouteFrame

GetGrade(tenant_id, grade_id) ==
    /\ route' =
          IF routes_get_tenant_id(tenant_id).status = 400
          THEN TenantContextMissing("get_grade", tenant_id, grade_id)
          ELSE LET out == get_grade(GRADES, grade_id, tenant_id)
               IN  [op |-> "get_grade", tenant_id |-> tenant_id,
                    id |-> grade_id, status |-> out.status,
                    result |-> out.result]
    /\ UNCHANGED <<STUDENTS, GRADES>>
    /\ RouteFrame

\* ensure_tenant_resource_access(session, Student, resource_id, tenant_id)
\* with a session of shard s.
EnsureStudentAccess(s, tenant_id, resource_id) ==
    /\ s \in database_shard_urls
    /\ LET out == ensure_tenant_resource_access(shard_data[s], resource_id,
                                                tenant_id)
       IN  route' = [op |-> "ensure_tenant_resource_access",
                     tenant_id |-> tenant_id, id |-> resource_id,
                     status |-> out.status, result |-> out.result]
    /\ UNCHANGED <<STUDENTS, GRADES>>
    /\ RouteFrame

NextRoutes ==
    \/ \E t \in RouteTenants : CreateStudent(t)
    \/ \E t \in RouteTenants : ListStudents(t)
    \/ \E t \in RouteTenants, id \in RouteIds : GetStudent(t, id)
    \/ \E t \in RouteTenants : CreateGrade(t)
    \/ \E t \in RouteTenants : ListGrades(t)
    \/ \E t \in RouteTenants, id \in RouteIds : GetGrade(t, id)
    \/ \E s \in AllShards, t \in TenantIds, id \in RouteIds :
          EnsureStudentAccess(s, t, id)

SpecRoutes == InitRoutes /\ [][NextRoutes]_vars

\* The records of a list as a set.
Records(list) == {list[i] : i \in 1..Len(list)}

\* C30: a create appends one record that carries the tenant_id of the
\* request; every record a route returns to tenant A carries tenant_id A;
\* and asking for the id of another tenant's record gives 404 and nothing.
C30_RoutesTenantScoped ==
    /\ [](\A rec \in Records(STUDENTS) \cup Records(GRADES) :
             rec.tenant_id \in TenantIds)
    /\ [][/\ Len(STUDENTS') > Len(STUDENTS) =>
                /\ STUDENTS' = Append(STUDENTS, STUDENTS'[Len(STUDENTS')])
                /\ STUDENTS'[Len(STUDENTS')].tenant_id = route'.tenant_id
          /\ Len(GRADES') > Len(GRADES) =>
                /\ GRADES' = Append(GRADES, GRADES'[Len(GRADES')])
                /\ GRADES'[Len(GRADES')].tenant_id = route'.tenant_id]_vars
    /\ [](\A rec \in Records(route.result) :
             rec.tenant_id = route.tenant_id)
    /\ [](route.op = "list_students" /\ route.status = 200 =>
             Records(route.result) =
                 {rec \in Records(STUDENTS) : rec.tenant_id = route.tenant_id})
    /\ [](route.op = "list_grades" /\ route.status = 200 =>
             Records(route.result) =
                 {rec \in Records(GRADES) : rec.tenant_id = route.tenant_id})
    /\ [](route.op = "get_student"
             /\ (\E rec \in Records(STUDENTS) :
                    rec.id = route.id /\ rec.tenant_id # route.tenant_id)
             => route.status \in {400, 404} /\ route.result = <<>>)
    /\ [](route.op = "get_grade"
             /\ (\E rec \in Records(GRADES) :
                    rec.id = route.id /\ rec.tenant_id # route.tenant_id)
             => route.status \in {400, 404} /\ route.result = <<>>)
    /\ [](route.op = "ensure_tenant_resource_access"
             /\ route.status = 200
             => \E s \in AllShards : route.result[1] \in shard_data[s])
    /\ [](route.op = "ensure_tenant_resource_access"
             /\ (\A s \in AllShards : \A row \in shard_data[s] :
                    row.id = route.id => row.tenant_id # route.tenant_id)
             => route.status = 404 /\ route.result = <<>>)

\* Tenant B, who has a student of its own, asked for a student of tenant
\* A by its id and got 404.
C30_Witness ==
    /\ route.op = "get_student"
    /\ route.tenant_id = T_tb
    /\ route.status = 404
    /\ \E rec \in Records(STUDENTS) :
          rec.id = route.id /\ rec.tenant_id = T_ta
    /\ \E rec \in Records(STUDENTS) : rec.tenant_id = T_tb

(***************************************************************************)
(* get_tenant_by_subdomain against registries with active and deactivated  *)
(* tenants.                                                                *)
(***************************************************************************)
\* The subdomains asked for: the two that get registered and one that
\* never is.
LookupSubdomains == Subdomains \cup {S_lincoln}

\* A call of get_tenant_by_subdomain: the registry session it asks for
\* initializes the manager when needed; the record or None is returned.
GetTenantBySubdomain(subdomain) ==
    /\ det' = [kind |-> "by_subdomain", input |-> subdomain, done |-> TRUE,
               out |-> get_tenant_by_subdomain(registry, subdomain)]
    /\ initialized' = TRUE
    /\ shard_session_makers' = MakersAfterInitialize
    /\ UNCHANGED <<init_vars, route_vars, open_sessions, debug, disposals,
                   creator, database_shard_urls, registry, tenant_cache, req,
                   call, shard_data>>

NextLookup ==
    \/ Startup
    \/ \E a \in CreateInputs : CreateTenant(a[1], a[2])
    \/ \E t \in TenantIds : Deactivate(t)
    \/ \E s \in LookupSubdomains : GetTenantBySubdomain(s)

SpecLookup == Init /\ [][NextLookup]_vars

\* C31: a call returns the active record of the registry whose subdomain
\* is the one asked for when there is one, and None when there is no
\* record or the record is inactive; what it returns is never a record of
\* another subdomain nor an inactive one.
C31_BySubdomain ==
    /\ [][(det'.kind = "by_subdomain" /\ det' # det) =>
             LET rows == {row \in registry : row.subdomain = det'.input}
             IN  /\ (\E row \in rows : row.is_active) =>
                        det'.out \in rows /\ det'.out.is_active
                 /\ (\A row \in rows : ~row.is_active) =>
                        det'.out = NoRecord]_vars
    /\ [](det.kind = "by_subdomain" /\ det.out # NoRecord =>
             det.out.subdomain = det.input /\ det.out.is_active)

\* The subdomain asked for belongs to a deactivated tenant while another
\* tenant is active, and the call returned None.
C31_Witness ==
    /\ det.kind = "by_subdomain"
    /\ det.out = NoRecord
    /\ \E row \in registry : row.subdomain = det.input /\ ~row.is_active
    /\ \E row \in registry : row.subdomain # det.input /\ row.is_active

(***************************************************************************)
(* config.py get_shard_for_tenant and get_database_url_for_tenant.  The    *)
(* hash of a str is a signed integer that changes from process to process, *)
(* so it is an input of the check.                                         *)
(***************************************************************************)
HashValues == (0 - MaxHash)..MaxHash

\* (tenant_hash % available_shards) + 1 with available_shards =
\* len(settings.database_shard_urls); Python's % with a positive modulus
\* is never negative, as is the % of Integers
get_shard_for_tenant(tenant_hash, urls) ==
    (tenant_hash % Cardinality(urls)) + 1

\* settings.database_shard_urls[shard_number]: the URL, named here by its
\* shard, or KeyError
get_database_url_for_tenant(tenant_hash, urls) ==
    LET shard_number == get_shard_for_tenant(tenant_hash, urls)
    IN  IF shard_number \in urls
        THEN [error |-> "", shard_number |-> shard_number,
              url_of_shard |-> shard_number]
        ELSE [error |-> "KeyError", shard_number |-> shard_number,
              url_of_shard |-> 0]

ApplyDatabaseUrl(tenant_id, tenant_hash) ==
    /\ det' = [kind |-> "database_url",
               input |-> [tenant_id |-> tenant_id, hash |-> tenant_hash],
               done |-> TRUE,
               out |-> get_database_url_for_tenant(tenant_hash,
                                                   database_shard_urls)]
    /\ UNCHANGED <<init_vars, route_vars, open_sessions, debug, disposals,
                   creator, database_shard_urls, initialized,
                   shard_session_makers, registry, tenant_cache, req, call,
                   shard_data>>

NextUrl ==
    \E t \in TenantIds, h \in HashValues : ApplyDatabaseUrl(t, h)

SpecUrl == Init /\ [][NextUrl]_vars

\* C32 (as claimed): for every tenant and every allowed configuration the
\* shard that get_shard_for_tenant gives is a configured one, and
\* get_database_url_for_tenant returns its URL without an error.
C32_ShardIsConfigured ==
    det.kind = "database_url" =>
        /\ det.out.shard_number \in database_shard_urls
        /\ det.out.error = ""
        /\ det.out.url_of_shard = det.out.shard_number

(***************************************************************************)
(* validate_tenant_ownership (middleware) and validate_tenant_access       *)
(* (models).  An object is a record; hasattr(obj, 'tenant_id') is the      *)
(* presence of the field.                                                  *)
(***************************************************************************)
HasTenantId(obj) == "tenant_id" \in DOMAIN obj

validate_tenant_ownership_no_hasattr(obj, tenant_id) ==
    IF ~HasTenantId(obj) THEN "HTTPException403"
    ELSE IF obj.tenant_id # tenant_id THEN "HTTPException403"
    ELSE ""

\* if hasattr(obj, 'tenant_id') and obj.tenant_id != tenant_id: raise
\* HTTPException(403); the error raised, "" for a normal return
validate_tenant_ownership(obj, tenant_id) ==
    IF HasTenantId(obj) /\ obj.tenant_id # tenant_id
    THEN "HTTPException403" ELSE ""

\* the same test, raising ValueError
validate_tenant_access(obj, expected_tenant_id) ==
    IF HasTenantId(obj) /\ obj.tenant_id # expected_tenant_id
    THEN "ValueError" ELSE ""

\* Objects with a tenant_id, a tenant's or None, and objects without one.
OwnedObjects ==
    {[id |-> i, tenant_id |-> t] :
        i \in 1..MaxStudents, t \in TenantIds \cup {None}}
    \cup {[id |-> i] : i \in 1..MaxStudents}

ApplyValidateOwnership(obj, tenant_id) ==
    /\ det' = [kind |-> "validate_tenant_ownership",
               input |-> [obj |-> obj, tenant_id |-> tenant_id],
               done |-> TRUE,
               out |-> validate_tenant_ownership(obj, tenant_id)]
    /\ UNCHANGED <<init_vars, route_vars, open_sessions, debug, disposals,
                   creator, database_shard_urls, initialized,
                   shard_session_makers, registry, tenant_cache, req, call,
                   shard_data>>

ApplyValidateAccess(obj, tenant_id) ==
    /\ det' = [kind |-> "validate_tenant_access",
               input |-> [obj |-> obj, tenant_id |-> tenant_id],
               done |-> TRUE,
               out |-> validate_tenant_access(obj, tenant_id)]
    /\ UNCHANGED <<init_vars, route_vars, open_sessions, debug, disposals,
                   creator, database_shard_urls, initialized,
                   shard_session_makers, registry, tenant_cache, req, call,
                   shard_data>>

NextOwnership ==
    \/ \E obj \in OwnedObjects, t \in TenantIds \cup {None} :
          ApplyValidateOwnership(obj, t)
    \/ \E obj \in OwnedObjects, t \in TenantIds \cup {None} :
          ApplyValidateAccess(obj, t)

SpecOwnership == Init /\ [][NextOwnership]_vars

OwnershipKinds == {"validate_tenant_ownership", "validate_tenant_access"}

\* C33: either function raises its error exactly when the object has a
\* tenant_id that differs from the tenant given, 403 from the middleware's
\* and ValueError from the models'; otherwise it returns, and in no case
\* does the call change any state.
C33_RaisesIffOtherTenant ==
    /\ [](det.kind \in OwnershipKinds =>
             LET obj == det.input.obj
                 other == HasTenantId(obj)
                              /\ obj.tenant_id # det.input.tenant_id
             IN  /\ other =>
                        det.out = IF det.kind = "validate_tenant_ownership"
                                  THEN "HTTPException403" ELSE "ValueError"
                 /\ ~other => det.out = "")
    /\ [][det'.kind \in OwnershipKinds =>
             UNCHANGED <<init_vars, route_vars, open_sessions, registry,
                         tenant_cache, req, call, shard_data>>]_vars

\* An object of tenant A was validated for tenant B and the 403 was raised.
C33_Witness ==
    /\ det.kind = "validate_tenant_ownership"
    /\ det.input.obj = [id |-> 1, tenant_id |-> T_ta]
    /\ det.input.tenant_id = T_tb
    /\ det.out = "HTTPException403"

(***************************************************************************)
(* The middleware cache under two concurrent requests.  _validate_tenant   *)
(* tests the cache, awaits its registry lookup and the close of the        *)
(* registry session, and then stores: DispatchLookup and DispatchStore of  *)
(* two requests interleave with each other and with the registry writers.  *)
(***************************************************************************)
\* Requests that name tenant ta, by header or by subdomain.
CacheArrivals ==
    {arrival \in LifeArrivals : arrival[2].identifier \in {T_ta, S_sa}}

NextCache ==
    \/ Startup
    \/ \E a \in CreateInputs : CreateTenant(a[1], a[2])
    \/ \E t \in TenantIds : Deactivate(t)
    \/ \E r \in Reqs, arrival \in CacheArrivals : DispatchBegin(r, arrival)
    \/ \E r \in Reqs : DispatchLookup(r)
    \/ \E r \in Reqs : DispatchStore(r)
    \/ \E r \in Reqs, raises \in BOOLEAN : DispatchHandler(r, raises)
    \/ \E r \in Reqs : DispatchReturn(r)

SpecCache == Init /\ [][NextCache]_vars

\* C34 (as claimed): an entry of the cache, once stored, is never changed
\* or removed.
C34_CacheEntryStable ==
    [][\A key \in DOMAIN tenant_cache :
          /\ key \in DOMAIN tenant_cache'
          /\ tenant_cache'[key] = tenant_cache[key]]_vars

(***************************************************************************)
(* The balance of the shards under registrations one after the other.      *)
(***************************************************************************)
\* The tenants t1 .. tMaxTenants and the subdomains s1 .. sMaxTenants.
BalanceTenant(n) == <<"t", DigitChars[n + 1]>>

BalanceSubdomain(n) == <<"s", DigitChars[n + 1]>>

BalanceTenantIds == {BalanceTenant(n) : n \in 1..MaxTenants}

\* Every tenant with its own subdomain and with its neighbour's, so that
\* registrations fail on the identifier and on the subdomain.
BalanceInputs ==
    {<<BalanceTenant(n), BalanceSubdomain(n)>> : n \in 1..MaxTenants}
    \cup {<<BalanceTenant(n), BalanceSubdomain(n + 1)>> :
              n \in 1..(MaxTenants - 1)}

NextBalance ==
    \/ Startup
    \/ \E a \in BalanceInputs : CreateTenant(a[1], a[2])
    \/ \E t \in BalanceTenantIds : Deactivate(t)

SpecBalance == Init /\ [][NextBalance]_vars

\* C35: with registrations that do not overlap, the numbers of registry
\* records, active or not, on any two configured shards differ by at most 1.
C35_ShardsBalanced ==
    \A s1, s2 \in database_shard_urls :
        shard_count(registry, s1) - shard_count(registry, s2) <= 1

\* Three shards hold four records, one of them deactivated before the last
\* registration, as 2, 1 and 1.
C35_Witness ==
    /\ database_shard_urls = {1, 2, 3}
    /\ Cardinality(registry) = 4
    /\ \E row \in registry : ~row.is_active /\ row.shard_number = 1
    /\ shard_count(registry, 1) = 2
    /\ shard_count(registry, 2) = 1
    /\ shard_count(registry, 3) = 1

\* C36: every registry record is on a configured shard, the manager once
\* initialized holds a session maker for every configured shard, before
\* and after close_all_connections, and no get_tenant_session fails for
\* lack of a session maker.
C36_RecordsOnConfiguredShards ==
    /\ \A row \in registry : row.shard_number \in database_shard_urls
    /\ initialized => shard_session_makers = database_shard_urls
    /\ \A c \in Callers :
          /\ call[c].error # "KeyError"
          /\ call[c].pc \in {"routed", "open"} =>
                call[c].shard_number \in database_shard_urls

\* After a close, a session is open for a tenant whose record is on the
\* last configured shard.
C36_Witness ==
    /\ database_shard_urls = {1, 3}
    /\ disposals > 0
    /\ \E c \in Callers :
          /\ call[c].pc = "open"
          /\ call[c].session.maker = 3
          /\ \E row \in registry :
                /\ row.tenant_id = call[c].tenant_id
                /\ row.shard_number = 3

\* C37 (as claimed): once close_all_connections has disposed the engines,
\* get_tenant_session yields no session: no step opens a session from a
\* session maker whose engine was disposed.
C37_NoSessionOnDisposedEngine ==
    [][\A c \in Callers :
          (call[c].pc = "routed" /\ call'[c].pc = "open") =>
              disposals = 0]_vars

\* C38 (as claimed): what a tenant sees does not depend on the others.  In
\* the run that holds the tenant's own operations alone, the id returned
\* by its n-th create is n; so in every run the id that a create returns is
\* the number of the tenant's own records, the new one included.
C38_IdsIndependentOfOthers ==
    /\ (route.op = "create_student" /\ route.status = 200) =>
          route.result[1].id =
              Len(list_students(STUDENTS, route.tenant_id))
    /\ (route.op = "create_grade" /\ route.status = 200) =>
          route.result[1].id = Len(list_grades(GRADES, route.tenant_id))

=============================================================================
